---- MODULE Spec2Model ----
(***************************************************************************)
(* The Simpsons Game mesh importer (SimpGameImport.execute, strip2face) as *)
(* a state machine over the bytes tmpRead of one file, in its two versions: *)
(*   "txd-debug"  Tools/blender/originals/io_import_simpson_game_fork-txd-debug.py *)
(*   "fork"       Tools/blender/io_import_simpson_game_fork.py             *)
(* Line numbers are those of the txd-debug file unless the fork is named.  *)
(***************************************************************************)
EXTENDS Integers, Sequences, FiniteSets, TLC

VARIABLES
    variant,          \* which version of the add-on runs
    tmpRead,          \* bytes of the imported file
    pc,               \* position in execute
    result,           \* "RUNNING", "FINISHED" or "RAISED"
    matches,          \* mshBytes.finditer(tmpRead), as records [start, end]
    matchNo,          \* 1-based position of x in matches
    mesh_iter,
    FaceDataOff, MeshDataSize, MeshChunkStart,
    mDataTableCount, mDataSubCount, mDataSubStart,
    hdrShort,         \* history: some read of the chunk header came back short
    i,                \* sub-mesh index
    VertChunkTotalSize, VertChunkSize, VertCount, VertexStart,
    FaceCount, FaceStart,
    descShort,        \* history: some descriptor read of sub-mesh i came back short
    descFaceCount,    \* history: FaceCount as derived from the descriptor (before clamping)
    pos,              \* data_io.tell() during the index loop
    f, tmpList, StripList,
    FaceTable, stripNo, x, flipped, tmpTable,
    v, VertTable, UVTable, CMTable,
    bmVerts, bmFaces, faceNo,
    collection,       \* cur_collection.objects, in link order
    markPc,           \* test.py: "idle", "loop", or the value returned
    byte_array,       \* test.py: the bytes being marked
    total_signatures_found, initial_blocks_marked,
    markChunk,        \* test.py: what the last pass of the signature loop derived
    fileOut,          \* test.py: the file's bytes after the call
    findPc,           \* string search: "idle", "search" or "returned"
    data,             \* string search: the bytes searched
    signatures_info,  \* string search: the sig_info records, in order
    sigNo,            \* string search: 1-based position of sig_info
    current_offset, results

chunkVars == <<FaceDataOff, MeshDataSize, MeshChunkStart, mDataTableCount,
               mDataSubCount, mDataSubStart, hdrShort>>
descVars  == <<VertChunkTotalSize, VertChunkSize, VertCount, VertexStart,
               FaceCount, FaceStart, descShort, descFaceCount>>
indexVars == <<pos, f, tmpList, StripList>>
stripVars == <<FaceTable, stripNo, x, flipped, tmpTable>>
vertVars  == <<v, VertTable, UVTable, CMTable>>
bmVars    == <<bmVerts, bmFaces, faceNo>>
scanVars  == <<matches, matchNo, mesh_iter>>

markVars  == <<markPc, byte_array, total_signatures_found, initial_blocks_marked,
               markChunk, fileOut>>

importVars == <<variant, tmpRead, pc, result, scanVars, chunkVars, i, descVars, indexVars,
                stripVars, vertVars, bmVars, collection>>

findVars  == <<findPc, data, signatures_info, sigNo, current_offset, results>>

toolVars  == <<markVars, findVars>>

vars == <<importVars, markVars, findVars>>

-----------------------------------------------------------------------------
(* Bytes and the data_io cursor                                            *)

Min(a, b) == IF a < b THEN a ELSE b

\* The element of a one-element set.  Its use below is {e(q) : q \in {p}}:
\* q holds the value of p, computed once however often e uses it.
Only(S) == CHOOSE e \in S : TRUE

\* data_io.read(n) at position p: the bytes that exist, possibly fewer than n.
Read(buf, p, n) ==
    Only({IF q >= Len(buf) THEN <<>> ELSE SubSeq(buf, q + 1, Min(q + n, Len(buf))) :
             q \in {p}})

\* data_io.tell() after reading bytes b at position p.
Tell(p, b) == p + Len(b)

\* The big-endian value of the first n bytes of c.
RECURSIVE BigValue(_, _)
BigValue(c, n) == IF n = 0 THEN 0 ELSE 256 * BigValue(c, n - 1) + c[n]

\* int.from_bytes(b, byteorder='big'); 0 for the empty read.
FromBytesBig(b) == Only({BigValue(c, Len(c)) : c \in {b}})

\* Stands for every integer of 2^30 or more, which the model checker's
\* integers cannot all hold: as an offset it lies beyond every buffer.
Beyond == 1073741824

RECURSIVE LittleValue(_)
LittleValue(b) == IF b = <<>> THEN 0 ELSE Head(b) + 256 * LittleValue(Tail(b))

\* int.from_bytes(b, byteorder='little'): unsigned, whatever the top bit.
FromBytesLittle(b) == IF Len(b) = 4 /\ b[4] >= 64 THEN Beyond ELSE LittleValue(b)

-----------------------------------------------------------------------------
(* Signature scan: re.compile(b"\x33\xEA\x00\x00....\x2D\x00\x02\x1C",      *)
(* re.DOTALL).finditer(tmpRead)                                            *)

SigLen == 12

MatchAt(buf, p) ==
    /\ p + SigLen <= Len(buf)
    /\ buf[p + 1] = 51 /\ buf[p + 2] = 234 /\ buf[p + 3] = 0 /\ buf[p + 4] = 0
    /\ buf[p + 9] = 45 /\ buf[p + 10] = 0 /\ buf[p + 11] = 2 /\ buf[p + 12] = 28

\* Offsets at which the pattern occurs.
Occurrences(buf) == {p \in 0..(Len(buf) - SigLen) : MatchAt(buf, p)}

\* A scan that reports every occurrence, overlapping ones included.
RECURSIVE FindFromOverlapping(_, _)
FindFromOverlapping(occ, from) ==
    LET rest == {p \in occ : p >= from}
    IN  IF rest = {} THEN <<>>
        ELSE LET m == CHOOSE p \in rest : \A q \in rest : p <= q
             IN  <<[start |-> m, end |-> m + SigLen]>> \o FindFromOverlapping(occ, m + 1)

\* finditer: the leftmost occurrence at or after `from`, then on from its end.
RECURSIVE FindFrom(_, _)
FindFrom(occ, from) ==
    LET rest == {p \in occ : p >= from}
    IN  IF rest = {} THEN <<>>
        ELSE LET m == CHOOSE p \in rest : \A q \in rest : p <= q
             IN  <<[start |-> m, end |-> m + SigLen]>> \o FindFrom(occ, m + SigLen)

FindIter(buf) == FindFrom(Occurrences(buf), 0)

-----------------------------------------------------------------------------
(* Chunk header                                                            *)

\* for i in range(mDataTableCount): data_io.seek(4, 1); data_io.read(4)
RECURSIVE TableSkip(_, _, _)
TableSkip(buf, p, n) ==
    IF n = 0 THEN p
    ELSE TableSkip(buf, Tell(p + 4, Read(buf, p + 4, 4)), n - 1)

ReadHeader(buf, xend) ==
    LET p0 == xend + 4
        b1 == Read(buf, p0, 4)
        p1 == Tell(p0, b1)
        b2 == Read(buf, p1, 4)
        p2 == Tell(p1, b2)
        p3 == p2 + 20
        b3 == Read(buf, p3, 4)
        p4 == Tell(p3, b3)
        b4 == Read(buf, p4, 4)
        p5 == Tell(p4, b4)
    IN  [FaceDataOff     |-> FromBytesLittle(b1),
         MeshDataSize    |-> FromBytesLittle(b2),
         MeshChunkStart  |-> p2,
         mDataTableCount |-> FromBytesBig(b3),
         mDataSubCount   |-> FromBytesBig(b4),
         mDataSubStart   |-> TableSkip(buf, p5, FromBytesBig(b3)),
         short           |-> Len(b1) < 4 \/ Len(b2) < 4 \/ Len(b3) < 4 \/ Len(b4) < 4]

\* The try block around the header reads: read, int.from_bytes, tell and seek
\* accept a short or empty read, so nothing in it raises.
HeaderRaises(hdr) == FALSE

-----------------------------------------------------------------------------
(* Sub-mesh descriptor                                                     *)

\* A division that rounds up.
CeilDiv(a, b) == (a + b - 1) \div b

\* Lines 324 and 333: int(a / b) for unsigned a and b > 0 below 2^32; the
\* float quotient is exact enough for int() to give the floor.
IntDiv(a, b) == a \div b

\* A descriptor read that keeps the vertex start of the sub-mesh read before.
ReadSubMeshCarried(buf, subStart, idx, mcs, fdo) ==
    LET q0     == subStart + idx * 12 + 8
        b0     == Read(buf, q0, 4)
        q1     == FromBytesBig(b0) + mcs + 12
        b1     == Read(buf, q1, 4)
        vcdo   == FromBytesBig(b1) + mcs
        b2     == Read(buf, vcdo, 4)
        b3     == Read(buf, vcdo + 4, 4)
        b4     == Read(buf, vcdo + 16, 4)
        b5     == Read(buf, vcdo + 40, 4)
        b6     == Read(buf, vcdo + 48, 4)
        total  == FromBytesBig(b2)
        size   == FromBytesBig(b3)
        short  == \E b \in {b0, b1, b2, b3, b4, b5, b6} : Len(b) < 4
    IN  IF size <= 0
        THEN [skip |-> "stride", VertChunkTotalSize |-> total, VertChunkSize |-> size,
              VertCount |-> 0, VertexStart |-> 0, FaceCount |-> 0, FaceStart |-> 0,
              short |-> short]
        ELSE [skip |-> "no", VertChunkTotalSize |-> total, VertChunkSize |-> size,
              VertCount |-> total \div size,
              VertexStart |-> IF idx > 0 THEN VertexStart
                              ELSE FromBytesBig(b4) + fdo + mcs,
              FaceCount |-> FromBytesBig(b5) \div 2,
              FaceStart |-> FromBytesBig(b6) + fdo + mcs,
              short |-> short]

\* A descriptor read that leaves FaceDataOff out of the vertex and face data
\* starts.
ReadSubMeshNoFaceBase(buf, subStart, idx, mcs, fdo) ==
    LET q0     == subStart + idx * 12 + 8
        b0     == Read(buf, q0, 4)
        q1     == FromBytesBig(b0) + mcs + 12
        b1     == Read(buf, q1, 4)
        vcdo   == FromBytesBig(b1) + mcs
        b2     == Read(buf, vcdo, 4)
        b3     == Read(buf, vcdo + 4, 4)
        b4     == Read(buf, vcdo + 16, 4)
        b5     == Read(buf, vcdo + 40, 4)
        b6     == Read(buf, vcdo + 48, 4)
        total  == FromBytesBig(b2)
        size   == FromBytesBig(b3)
        short  == \E b \in {b0, b1, b2, b3, b4, b5, b6} : Len(b) < 4
    IN  IF size <= 0
        THEN [skip |-> "stride", VertChunkTotalSize |-> total, VertChunkSize |-> size,
              VertCount |-> 0, VertexStart |-> 0, FaceCount |-> 0, FaceStart |-> 0,
              short |-> short]
        ELSE [skip |-> "no", VertChunkTotalSize |-> total, VertChunkSize |-> size,
              VertCount |-> total \div size,
              VertexStart |-> FromBytesBig(b4) + mcs,
              FaceCount |-> FromBytesBig(b5) \div 2,
              FaceStart |-> FromBytesBig(b6) + mcs,
              short |-> short]

ReadSubMesh(buf, subStart, idx, mcs, fdo) ==
    LET q0     == subStart + idx * 12 + 8
        b0     == Read(buf, q0, 4)
        offset == FromBytesBig(b0)
        q1     == offset + mcs + 12
        b1     == Read(buf, q1, 4)
        vcdo   == FromBytesBig(b1) + mcs
        b2     == Read(buf, vcdo, 4)
        t2     == Tell(vcdo, b2)
        b3     == Read(buf, t2, 4)
        t3     == Tell(t2, b3)
        total  == FromBytesBig(b2)
        size   == FromBytesBig(b3)
        t4     == t3 + 8
        b4     == Read(buf, t4, 4)
        t5     == Tell(t4, b4) + 20
        b5     == Read(buf, t5, 4)
        t6     == Tell(t5, b5) + 4
        b6     == Read(buf, t6, 4)
        early  == Len(b0) < 4 \/ Len(b1) < 4 \/ Len(b2) < 4 \/ Len(b3) < 4
    IN  IF size <= 0
        THEN [skip |-> "stride", VertChunkTotalSize |-> total, VertChunkSize |-> size,
              VertCount |-> 0, VertexStart |-> 0, FaceCount |-> 0, FaceStart |-> 0,
              short |-> early]
        ELSE IF t5 + 4 > Len(buf)
        THEN [skip |-> "facecount", VertChunkTotalSize |-> total, VertChunkSize |-> size,
              VertCount |-> IntDiv(total, size),
              VertexStart |-> FromBytesBig(b4) + fdo + mcs,
              FaceCount |-> 0, FaceStart |-> 0,
              short |-> early \/ Len(b4) < 4]
        ELSE [skip |-> "no", VertChunkTotalSize |-> total, VertChunkSize |-> size,
              VertCount |-> IntDiv(total, size),
              VertexStart |-> FromBytesBig(b4) + fdo + mcs,
              FaceCount |-> IntDiv(FromBytesBig(b5), 2),
              FaceStart |-> FromBytesBig(b6) + fdo + mcs,
              short |-> early \/ Len(b4) < 4 \/ Len(b5) < 4 \/ Len(b6) < 4]

\* Fork lines 136-149: the same reads without the stride and bounds checks;
\* int(VertChunkTotalSize / VertChunkSize) raises ZeroDivisionError for a zero
\* stride, which the except at fork line 153 turns into `continue`.
ForkReadSubMesh(buf, subStart, idx, mcs, fdo) ==
    LET q0     == subStart + idx * 12 + 8
        b0     == Read(buf, q0, 4)
        offset == FromBytesBig(b0)
        q1     == offset + mcs + 12
        b1     == Read(buf, q1, 4)
        vcdo   == FromBytesBig(b1) + mcs
        b2     == Read(buf, vcdo, 4)
        t2     == Tell(vcdo, b2)
        b3     == Read(buf, t2, 4)
        t3     == Tell(t2, b3)
        total  == FromBytesBig(b2)
        size   == FromBytesBig(b3)
        t4     == t3 + 8
        b4     == Read(buf, t4, 4)
        t5     == Tell(t4, b4) + 20
        b5     == Read(buf, t5, 4)
        t6     == Tell(t5, b5) + 4
        b6     == Read(buf, t6, 4)
        early  == Len(b0) < 4 \/ Len(b1) < 4 \/ Len(b2) < 4 \/ Len(b3) < 4
    IN  IF size = 0
        THEN [skip |-> "zerodiv", VertChunkTotalSize |-> total, VertChunkSize |-> size,
              VertCount |-> 0, VertexStart |-> 0, FaceCount |-> 0, FaceStart |-> 0,
              short |-> early]
        ELSE [skip |-> "no", VertChunkTotalSize |-> total, VertChunkSize |-> size,
              VertCount |-> IntDiv(total, size),
              VertexStart |-> FromBytesBig(b4) + fdo + mcs,
              FaceCount |-> IntDiv(FromBytesBig(b5), 2),
              FaceStart |-> FromBytesBig(b6) + fdo + mcs,
              short |-> early \/ Len(b4) < 4 \/ Len(b5) < 4 \/ Len(b6) < 4]

\* An error path that tries the same sub-mesh again.
RetrySub(idx, count) == idx

\* A `break` in place of the `continue`: the sub-mesh loop ends.
BreakSub(idx, count) == count

\* `continue` in `for i in range(mDataSubCount)`: the next sub-mesh index.
ContinueSub(idx, count) == idx + 1


-----------------------------------------------------------------------------
(* Face indices, strips and strip2face                                     *)

Sentinel == 65535

\* The bounds check on FaceStart without the clamp of lines 354-359.
NoClampFaceCount(start, count, len) ==
    IF start < 0 \/ start >= len THEN 0 ELSE count

\* Lines 349-359: FaceCount after the bounds checks on FaceStart.
ClampFaceCount(start, count, len) ==
    IF start < 0 \/ start >= len THEN 0
    ELSE IF start + count * 2 > len THEN (len - start) \div 2
    ELSE count

\* The index loop ends: range(FaceCount) is exhausted or the per-index guard breaks.
IndexLoopDone(buf, p, k, count) == k >= count \/ p + 2 > Len(buf)

\* Fork line 161: for f in range(FaceCount), with no guard on the reads.
ForkIndexLoopDone(k, count) == k >= count

LoopDone(var, buf, p, k, count) ==
    IF var = "fork" THEN ForkIndexLoopDone(k, count) ELSE IndexLoopDone(buf, p, k, count)

\* A degeneracy test that compares neighbours only.
DegenerateAdjacent(v1, v2, v3) == v1 = v2 \/ v2 = v3

\* Line 641: two of the three indices of the window are equal.
Degenerate(v1, v2, v3) == v1 = v2 \/ v1 = v3 \/ v2 = v3

\* The flip state left by the strip decoded before.
CarriedFlipped == flipped

\* Line 629: strip2face begins with flipped = False.
InitFlipped == FALSE

\* A non-flipped triangle in window order.
WindingUnrotated(flip, v1, v2, v3) == IF flip THEN <<v3, v2, v1>> ELSE <<v1, v2, v3>>

\* Lines 647-650: (strip[x+2], strip[x+1], strip[x]) when flipped, else
\* (strip[x+1], strip[x+2], strip[x]).
Winding(flip, v1, v2, v3) == IF flip THEN <<v3, v2, v1>> ELSE <<v2, v3, v1>>

\* A flip state that advances on emitted triangles only.
FlipOnEmit(flip, degenerate) == IF degenerate THEN flip ELSE ~flip

\* Lines 644 and 651: flipped toggles after every window, skipped or emitted.
FlipAfter(flip, degenerate) == ~flip

\* A close that appends the current strip even when it is empty.
CloseStripAlways(strips, cur) == Append(strips, cur)

\* Lines 369-370 and 374-375: the current strip is appended only if not empty.
CloseStrip(strips, cur) == IF cur # <<>> THEN Append(strips, cur) ELSE strips

\* A face table that takes the triangles of a strip in front.
ExtendInFront(table, tris) == tris \o table

\* Line 383: FaceTable.extend(strip2face(f)).
Extend(table, tris) == table \o tris

\* range(len(strip) - 2), after the early return for len(strip) < 3
Windows(strip) == IF Len(strip) < 3 THEN 0 ELSE Len(strip) - 2

-----------------------------------------------------------------------------
(* Vertex records: struct.unpack('>fff') and ('>ff').  A float is kept as   *)
(* <<tag, b1, b2, b3, b4>>: tag 0 is the value with these IEEE-754 bits,    *)
(* tag 1 is 1 minus that value (when the difference has no entry below).   *)

Unpack(b) == <<0, b[1], b[2], b[3], b[4]>>

F0 == Unpack(<<0, 0, 0, 0>>)        \* 0.0
F1 == Unpack(<<63, 128, 0, 0>>)     \* 1.0

\* 1 - value
OneMinus(fl) ==
    CASE fl = F0                        -> F1
      [] fl = F1                        -> F0
      [] fl = Unpack(<<62, 128, 0, 0>>) -> Unpack(<<63, 64, 0, 0>>)   \* 0.25 -> 0.75
      [] fl = Unpack(<<63, 64, 0, 0>>)  -> Unpack(<<62, 128, 0, 0>>)  \* 0.75 -> 0.25
      [] fl = Unpack(<<63, 0, 0, 0>>)   -> Unpack(<<63, 0, 0, 0>>)    \* 0.5
      [] fl = Unpack(<<127, 128, 0, 0>>) -> Unpack(<<255, 128, 0, 0>>) \* inf -> -inf
      [] fl = Unpack(<<255, 128, 0, 0>>) -> Unpack(<<127, 128, 0, 0>>) \* -inf -> inf
      [] fl[1] = 0 /\ fl[2] % 128 = 127 /\ fl[3] >= 128 -> fl          \* NaN
      [] OTHER                          -> <<1, fl[2], fl[3], fl[4], fl[5]>>

\* math.isfinite: the exponent bits are not all ones
IsFinite(fl) == ~(fl[2] % 128 = 127 /\ fl[3] >= 128)

\* Line 397: the record of vertex k does not fit, the vertex loop breaks.
VertexBreak(buf, vstart, k, size) == vstart + k * size + size > Len(buf)

\* A skip that also leaves the first vertex out.
VertexSkipFirst(buf, vstart, k, size) == k = 0 \/ vstart + k * size + 12 > Len(buf)

\* Line 405: not enough bytes for the position, the vertex is skipped.
VertexSkip(buf, vstart, k, size) == vstart + k * size + 12 > Len(buf)

ReadPosition(buf, at) ==
    LET b == Read(buf, at, 12)
    IN  <<Unpack(SubSeq(b, 1, 4)), Unpack(SubSeq(b, 5, 8)), Unpack(SubSeq(b, 9, 12))>>

\* The UV pair taken right after the position.
UVOffsetAfterPosition(start, size) == start + 12

\* Line 413: uv_offset = vert_data_start + VertChunkSize - 16.
UVOffset(start, size) == start + size - 16

\* Line 423: cm_offset = vert_data_start + VertChunkSize - 8.
CMOffset(start, size) == start + size - 8

\* A UV pair stored as it is read, V not inverted.
ReadUVRaw(buf, at) ==
    LET b == Read(buf, at, 8)
    IN  IF at < 0 \/ at + 8 > Len(buf) THEN <<F0, F0>>
        ELSE <<Unpack(SubSeq(b, 1, 4)), Unpack(SubSeq(b, 5, 8))>>

\* Lines 413-420 and 423-430: a UV pair at uv_offset, defaulted when out of bounds,
\* stored with V inverted.
ReadUV(buf, at) ==
    LET b    == Read(buf, at, 8)
        temp == IF at < 0 \/ at + 8 > Len(buf) THEN <<F0, F0>>
                ELSE <<Unpack(SubSeq(b, 1, 4)), Unpack(SubSeq(b, 5, 8))>>
    IN  <<temp[1], OneMinus(temp[2])>>

\* Fork lines 185-195: struct.unpack raises struct.error on a short read and
\* seek raises on a negative offset; the except at fork line 196 skips the
\* sub-mesh.
ForkVertexError(buf, vstart, k, size) ==
    LET at == vstart + k * size
    IN  \/ Len(Read(buf, at, 12)) < 12
        \/ UVOffset(at, size) < 0
        \/ Len(Read(buf, UVOffset(at, size), 8)) < 8
        \/ CMOffset(at, size) < 0
        \/ Len(Read(buf, CMOffset(at, size), 8)) < 8

-----------------------------------------------------------------------------
(* BMesh and the collection                                                *)

\* An index check without the upper bound.
ValidFaceNoUpper(face, nverts) == \A k \in 1..3 : face[k] >= 0

\* Lines 466-471: every index of the face is a vertex of the BMesh.
ValidFace(face, nverts) == \A k \in 1..3 : face[k] >= 0 /\ face[k] < nverts

FaceSet(face) == {face[1], face[2], face[3]}

\* bm.faces.new raises ValueError for a face on the same vertices ("face already exists").
FaceExists(faces, face) == \E k \in 1..Len(faces) : FaceSet(faces[k]) = FaceSet(face)

\* A sanitisation that replaces the non-finite components one by one.
SanitizeComponents(uv) ==
    <<IF IsFinite(uv[1]) THEN uv[1] ELSE F0, IF IsFinite(uv[2]) THEN uv[2] ELSE F0>>

\* Lines 564-581: the UV written to a loop.
Sanitize(uv) == IF IsFinite(uv[1]) /\ IsFinite(uv[2]) THEN uv ELSE <<F0, F0>>

LoopUVs(faces, table) ==
    [k \in 1..Len(faces) |-> [c \in 1..3 |-> Sanitize(table[faces[k][c] + 1])]]

\* Line 440: nothing to build a mesh from.
NoData(verts, faces) == verts = <<>> \/ faces = <<>>

\* cur_collection.objects after the object named name is unlinked and removed.
Unlink(objs, name) == SelectSeq(objs, LAMBDA o : o.name # name)


-----------------------------------------------------------------------------
(* Control flow of execute                                                 *)

\* Lines 293-304: where execute goes after the header reads.  "sub": on to the
\* table skip and the sub-mesh loop; "chunk": the except branch, continue with the
\* next match; "done": leave execute.
AfterHeader(hdr) == IF HeaderRaises(hdr) THEN "chunk" ELSE "sub"

Scan ==
    /\ pc = "scan"
    /\ matches' = FindIter(tmpRead)
    /\ matchNo' = 1
    /\ mesh_iter' = 0
    /\ pc' = "chunk"
    /\ UNCHANGED <<toolVars, variant, tmpRead, result, chunkVars, i, descVars, indexVars, stripVars,
                   vertVars, bmVars, collection>>

ReadChunkHeader ==
    /\ pc = "chunk"
    /\ matchNo <= Len(matches)
    /\ LET hdr == ReadHeader(tmpRead, matches[matchNo].end)
       IN  /\ pc' = AfterHeader(hdr)
           /\ hdrShort' = hdr.short
           /\ IF pc' = "chunk"
              THEN /\ matchNo' = matchNo + 1
                   /\ UNCHANGED <<FaceDataOff, MeshDataSize, MeshChunkStart,
                                  mDataTableCount, mDataSubCount, mDataSubStart, i>>
              ELSE /\ matchNo' = matchNo
                   /\ FaceDataOff' = hdr.FaceDataOff
                   /\ MeshDataSize' = hdr.MeshDataSize
                   /\ MeshChunkStart' = hdr.MeshChunkStart
                   /\ mDataTableCount' = hdr.mDataTableCount
                   /\ mDataSubCount' = hdr.mDataSubCount
                   /\ mDataSubStart' = hdr.mDataSubStart
                   /\ i' = 0
    /\ result' = IF pc' = "done" THEN "CANCELLED" ELSE result
    /\ UNCHANGED <<toolVars, variant, tmpRead, matches, mesh_iter, descVars, indexVars, stripVars,
                   vertVars, bmVars, collection>>

ImportComplete ==
    /\ pc = "chunk"
    /\ matchNo > Len(matches)
    /\ result' = "FINISHED"
    /\ pc' = "done"
    /\ UNCHANGED <<toolVars, variant, tmpRead, scanVars, chunkVars, i, descVars, indexVars, stripVars,
                   vertVars, bmVars, collection>>

ReadSubMeshHeader ==
    /\ pc = "sub"
    /\ i < mDataSubCount
    /\ LET d == IF variant = "fork"
                THEN ForkReadSubMesh(tmpRead, mDataSubStart, i, MeshChunkStart, FaceDataOff)
                ELSE ReadSubMesh(tmpRead, mDataSubStart, i, MeshChunkStart, FaceDataOff)
           early == d.skip \in {"stride", "zerodiv"}
       IN  /\ VertChunkTotalSize' = d.VertChunkTotalSize
           /\ VertChunkSize' = d.VertChunkSize
           /\ VertCount' = IF early THEN VertCount ELSE d.VertCount
           /\ VertexStart' = IF early THEN VertexStart ELSE d.VertexStart
           /\ FaceCount' = IF d.skip = "no" THEN d.FaceCount ELSE FaceCount
           /\ FaceStart' = IF d.skip = "no" THEN d.FaceStart ELSE FaceStart
           /\ descFaceCount' = IF d.skip = "no" THEN d.FaceCount ELSE descFaceCount
           /\ descShort' = d.short
           /\ IF d.skip = "no"
              THEN pc' = "faces" /\ i' = i
              ELSE pc' = "sub" /\ i' = ContinueSub(i, mDataSubCount)
    /\ UNCHANGED <<toolVars, variant, tmpRead, result, scanVars, chunkVars, indexVars, stripVars,
                   vertVars, bmVars, collection>>

\* A chunk counter that counts the chunks that gave a mesh.
NextMeshIterIfEmitted(iter, emitted) == IF emitted THEN iter + 1 ELSE iter

\* Line 618: mesh_iter += 1 at the end of every pass of the chunk loop.
NextMeshIter(iter, emitted) == iter + 1

EndChunk ==
    /\ pc = "sub"
    /\ i >= mDataSubCount
    /\ mesh_iter' = NextMeshIter(mesh_iter,
                                 \E c \in 1..Len(collection) : collection[c].name[1] = mesh_iter)
    /\ matchNo' = matchNo + 1
    /\ pc' = "chunk"
    /\ UNCHANGED <<toolVars, variant, tmpRead, result, matches, chunkVars, i, descVars, indexVars,
                   stripVars, vertVars, bmVars, collection>>

BeginFaces ==
    /\ pc = "faces"
    /\ pos' = FaceStart
    /\ StripList' = <<>>
    /\ tmpList' = <<>>
    /\ f' = 0
    /\ FaceCount' = IF variant = "fork" THEN FaceCount
                    ELSE ClampFaceCount(FaceStart, FaceCount, Len(tmpRead))
    /\ pc' = "index"
    /\ UNCHANGED <<toolVars, variant, tmpRead, result, scanVars, chunkVars, i, VertChunkTotalSize,
                   VertChunkSize, VertCount, VertexStart, FaceStart, descShort,
                   descFaceCount, stripVars, vertVars, bmVars, collection>>

ReadIndice ==
    /\ pc = "index"
    /\ ~LoopDone(variant, tmpRead, pos, f, FaceCount)
    /\ LET b      == Read(tmpRead, pos, 2)
           Indice == FromBytesBig(b)
       IN  /\ pos' = Tell(pos, b)
           /\ IF Indice = Sentinel
              THEN /\ StripList' = CloseStrip(StripList, tmpList)
                   /\ tmpList' = <<>>
              ELSE /\ tmpList' = Append(tmpList, Indice)
                   /\ StripList' = StripList
    /\ f' = f + 1
    /\ UNCHANGED <<toolVars, variant, tmpRead, pc, result, scanVars, chunkVars, i, descVars, stripVars,
                   vertVars, bmVars, collection>>

EndIndices ==
    /\ pc = "index"
    /\ LoopDone(variant, tmpRead, pos, f, FaceCount)
    /\ StripList' = CloseStrip(StripList, tmpList)
    /\ FaceTable' = <<>>
    /\ stripNo' = 1
    /\ x' = 0
    /\ flipped' = InitFlipped
    /\ tmpTable' = <<>>
    /\ pc' = "strips"
    /\ UNCHANGED <<toolVars, variant, tmpRead, result, scanVars, chunkVars, i, descVars, pos, f, tmpList,
                   vertVars, bmVars, collection>>

Strip2FaceStep ==
    /\ pc = "strips"
    /\ stripNo <= Len(StripList)
    /\ x < Windows(StripList[stripNo])
    /\ LET strip == StripList[stripNo]
           v1    == strip[x + 1]
           v2    == strip[x + 2]
           v3    == strip[x + 3]
       IN  /\ tmpTable' = IF Degenerate(v1, v2, v3) THEN tmpTable
                           ELSE Append(tmpTable, Winding(flipped, v1, v2, v3))
           /\ flipped' = FlipAfter(flipped, Degenerate(v1, v2, v3))
    /\ x' = x + 1
    /\ UNCHANGED <<toolVars, variant, tmpRead, pc, result, scanVars, chunkVars, i, descVars, indexVars,
                   FaceTable, stripNo, vertVars, bmVars, collection>>

Strip2FaceReturn ==
    /\ pc = "strips"
    /\ stripNo <= Len(StripList)
    /\ x >= Windows(StripList[stripNo])
    /\ FaceTable' = Extend(FaceTable, tmpTable)
    /\ stripNo' = stripNo + 1
    /\ x' = 0
    /\ flipped' = InitFlipped
    /\ tmpTable' = <<>>
    /\ UNCHANGED <<toolVars, variant, tmpRead, pc, result, scanVars, chunkVars, i, descVars, indexVars,
                   vertVars, bmVars, collection>>

BeginVerts ==
    /\ pc = "strips"
    /\ stripNo > Len(StripList)
    /\ VertTable' = <<>>
    /\ UVTable' = <<>>
    /\ CMTable' = <<>>
    /\ v' = 0
    /\ VertCount' = IF variant # "fork" /\ (VertexStart < 0 \/ VertexStart >= Len(tmpRead))
                    THEN 0 ELSE VertCount
    /\ pc' = "verts"
    /\ UNCHANGED <<toolVars, variant, tmpRead, result, scanVars, chunkVars, i, VertChunkTotalSize,
                   VertChunkSize, VertexStart, FaceCount, FaceStart, descShort,
                   descFaceCount, indexVars, stripVars, bmVars, collection>>

\* One pass of `for v in range(VertCount)`.  In the fork a failed read leaves
\* the loop through the except at fork line 196 and skips the sub-mesh.
ReadVertex ==
    /\ pc = "verts"
    /\ v < VertCount
    /\ variant = "fork" \/ ~VertexBreak(tmpRead, VertexStart, v, VertChunkSize)
    /\ LET vert_data_start == VertexStart + v * VertChunkSize
           failed == variant = "fork"
                     /\ ForkVertexError(tmpRead, VertexStart, v, VertChunkSize)
           skipped == variant # "fork"
                      /\ VertexSkip(tmpRead, VertexStart, v, VertChunkSize)
       IN  /\ IF failed \/ skipped
              THEN UNCHANGED <<VertTable, UVTable, CMTable>>
              ELSE /\ VertTable' = Append(VertTable, ReadPosition(tmpRead, vert_data_start))
                   /\ UVTable' = Append(UVTable,
                                   ReadUV(tmpRead, UVOffset(vert_data_start, VertChunkSize)))
                   /\ CMTable' = Append(CMTable,
                                   ReadUV(tmpRead, CMOffset(vert_data_start, VertChunkSize)))
           /\ IF failed
              THEN pc' = "sub" /\ i' = ContinueSub(i, mDataSubCount) /\ v' = v
              ELSE pc' = pc /\ i' = i /\ v' = v + 1
    /\ UNCHANGED <<toolVars, variant, tmpRead, result, scanVars, chunkVars, descVars, indexVars,
                   stripVars, bmVars, collection>>

EndVerts ==
    /\ pc = "verts"
    /\ \/ v >= VertCount
       \/ variant # "fork" /\ VertexBreak(tmpRead, VertexStart, v, VertChunkSize)
    /\ pc' = "mesh"
    /\ UNCHANGED <<toolVars, variant, tmpRead, result, scanVars, chunkVars, i, descVars, indexVars,
                   stripVars, vertVars, bmVars, collection>>

\* Lines 440-442; the fork has no such check.
SkipMesh ==
    /\ pc = "mesh"
    /\ variant # "fork"
    /\ NoData(VertTable, FaceTable)
    /\ i' = ContinueSub(i, mDataSubCount)
    /\ pc' = "sub"
    /\ UNCHANGED <<toolVars, variant, tmpRead, result, scanVars, chunkVars, descVars, indexVars,
                   stripVars, vertVars, bmVars, collection>>

\* A name that leaves the sub-mesh index out.
MeshNameChunkOnly == <<mesh_iter, 0>>

\* Line 444: f"Mesh_{mesh_iter}_{i}".
MeshName == <<mesh_iter, i>>

NewMesh ==
    /\ pc = "mesh"
    /\ variant = "fork" \/ ~NoData(VertTable, FaceTable)
    /\ collection' = Append(collection,
                        [name |-> MeshName, verts |-> <<>>, faces |-> <<>>,
                         uv |-> <<>>, cm |-> <<>>,
                         hdrShort |-> hdrShort, descShort |-> descShort])
    /\ bmVerts' = VertTable
    /\ bmFaces' = <<>>
    /\ faceNo' = 1
    /\ pc' = "bmfaces"
    /\ UNCHANGED <<toolVars, variant, tmpRead, result, scanVars, chunkVars, i, descVars, indexVars,
                   stripVars, vertVars>>

AddFace ==
    /\ pc = "bmfaces"
    /\ faceNo <= Len(FaceTable)
    /\ LET f_indices == FaceTable[faceNo]
       IN  bmFaces' = IF ValidFace(f_indices, Len(bmVerts)) /\ ~FaceExists(bmFaces, f_indices)
                      THEN Append(bmFaces, f_indices)
                      ELSE bmFaces
    /\ faceNo' = faceNo + 1
    /\ UNCHANGED <<toolVars, variant, tmpRead, pc, result, scanVars, chunkVars, i, descVars, indexVars,
                   stripVars, vertVars, bmVerts, collection>>

\* Lines 505-522, when the log calls on the removed mesh1 and obj return.
CleanupContinue ==
    /\ pc = "bmfaces"
    /\ variant # "fork"
    /\ faceNo > Len(FaceTable)
    /\ bmFaces = <<>>
    /\ collection' = Unlink(collection, MeshName)
    /\ i' = ContinueSub(i, mDataSubCount)
    /\ pc' = "sub"
    /\ UNCHANGED <<toolVars, variant, tmpRead, result, scanVars, chunkVars, descVars, indexVars,
                   stripVars, vertVars, bmVars>>

\* Lines 505-512, when mesh1.name on the removed mesh data raises ReferenceError:
\* bpy.data.meshes.remove(mesh1) has deleted the data and the object using it.
CleanupRaise ==
    /\ pc = "bmfaces"
    /\ variant # "fork"
    /\ faceNo > Len(FaceTable)
    /\ bmFaces = <<>>
    /\ collection' = Unlink(collection, MeshName)
    /\ result' = "RAISED"
    /\ pc' = "done"
    /\ UNCHANGED <<toolVars, variant, tmpRead, scanVars, chunkVars, i, descVars, indexVars,
                   stripVars, vertVars, bmVars>>

\* Fork lines 236-239: bm.free() and continue; the object linked at fork
\* line 204 and its mesh data stay as they are.
NoFacesContinue ==
    /\ pc = "bmfaces"
    /\ variant = "fork"
    /\ faceNo > Len(FaceTable)
    /\ bmFaces = <<>>
    /\ i' = ContinueSub(i, mDataSubCount)
    /\ pc' = "sub"
    /\ UNCHANGED <<toolVars, variant, tmpRead, result, scanVars, chunkVars, descVars, indexVars,
                   stripVars, vertVars, bmVars, collection>>

ToMesh ==
    /\ pc = "bmfaces"
    /\ faceNo > Len(FaceTable)
    /\ bmFaces # <<>>
    /\ collection' = [collection EXCEPT ![Len(collection)] =
                        [@ EXCEPT !.verts = bmVerts, !.faces = bmFaces,
                                  !.uv = LoopUVs(bmFaces, UVTable),
                                  !.cm = LoopUVs(bmFaces, CMTable)]]
    /\ i' = ContinueSub(i, mDataSubCount)
    /\ pc' = "sub"
    /\ UNCHANGED <<toolVars, variant, tmpRead, result, scanVars, chunkVars, descVars, indexVars,
                   stripVars, vertVars, bmVars>>

Next ==
    \/ Scan
    \/ ReadChunkHeader
    \/ ImportComplete
    \/ ReadSubMeshHeader
    \/ EndChunk
    \/ BeginFaces
    \/ ReadIndice
    \/ EndIndices
    \/ Strip2FaceStep
    \/ Strip2FaceReturn
    \/ BeginVerts
    \/ ReadVertex
    \/ EndVerts
    \/ SkipMesh
    \/ NewMesh
    \/ AddFace
    \/ CleanupContinue
    \/ CleanupRaise
    \/ NoFacesContinue
    \/ ToMesh


-----------------------------------------------------------------------------
(* Input buffers                                                           *)

BE32(n) == <<(n \div 16777216) % 256, (n \div 65536) % 256, (n \div 256) % 256, n % 256>>
LE32(n) == <<n % 256, (n \div 256) % 256, (n \div 65536) % 256, (n \div 16777216) % 256>>
BE16(n) == <<(n \div 256) % 256, n % 256>>

Zeros(k) == [j \in 1..k |-> 0]

Max(a, b) == IF a > b THEN a ELSE b

RECURSIVE Concat(_)
Concat(ss) == IF ss = <<>> THEN <<>> ELSE Head(ss) \o Concat(Tail(ss))

\* A file signature; bytes 4..7 are the wildcard bytes.
SigOf(wild) == <<51, 234, 0, 0>> \o wild \o <<45, 0, 2, 28>>
Sig == SigOf(<<17, 34, 51, 68>>)

\* Vertex bytes of n records of the given stride: any bytes will do.
VertexBytes(n, stride) == [j \in 1..(n * stride) |-> 1 + ((j - 1) % 97)]

IndexBytes(idx) == Concat([k \in 1..Len(idx) |-> BE16(idx[k])])

Descriptor(s, vrel, frel) ==
    Concat(<<BE32(s.total), BE32(s.stride), Zeros(8), BE32(Max(vrel, 0)), Zeros(20),
             BE32(s.raw), Zeros(4), BE32(Max(frel, 0))>>)

\* The bytes of sub-mesh s placed at chunk-relative offset base, and the relative
\* offset o1 its table entry holds.  fdo is the chunk's FaceDataOff.  The layout
\* orders the descriptor (d), the vertex records (v) and the indices (i).
Block(base, fdo, s) ==
    LET vdata == s.vdata
        idata == IndexBytes(s.idx)
        head(o1) == Zeros(12) \o BE32(o1 + 16)
    IN  CASE s.layout = "ivd" ->
               LET o1 == base + Len(idata) + Len(vdata)
               IN  [o1 |-> o1,
                    bytes |-> Concat(<<idata, vdata, head(o1),
                                       Descriptor(s, base + Len(idata) - fdo, base - fdo)>>)]
          [] s.layout = "div" ->
               [o1 |-> base,
                bytes |-> Concat(<<head(base),
                                   Descriptor(s, base + 68 + Len(idata) - fdo, base + 68 - fdo),
                                   idata, vdata>>)]
          [] OTHER ->
               [o1 |-> base,
                bytes |-> Concat(<<head(base),
                                   Descriptor(s, base + 68 - fdo, base + 68 + Len(vdata) - fdo),
                                   vdata, idata>>)]

RECURSIVE Blocks(_, _, _)
Blocks(base, fdo, subs) ==
    IF subs = <<>> THEN <<>>
    ELSE LET b == Block(base, fdo, Head(subs))
         IN  <<b>> \o Blocks(base + Len(b.bytes), fdo, Tail(subs))

\* One chunk: signature, header with tableCount table entries and subCount
\* announced sub-meshes, the sub-mesh table and the sub-mesh blocks.
\* sig is the signature and pad the 4 bytes between it and the header.
ChunkBytesWith(sig, pad, fdo, tableCount, subCount, subs) ==
    LET blocks == Blocks(28 + 8 * tableCount + 12 * Len(subs), fdo, subs)
    IN  Concat(<<sig, pad, LE32(fdo), LE32(0), Zeros(20),
                 BE32(tableCount), BE32(subCount), Zeros(8 * tableCount),
                 Concat([k \in 1..Len(subs) |-> Zeros(8) \o BE32(blocks[k].o1)]),
                 Concat([k \in 1..Len(subs) |-> blocks[k].bytes])>>)

ChunkBytes(fdo, tableCount, subCount, subs) ==
    ChunkBytesWith(Sig, Zeros(4), fdo, tableCount, subCount, subs)

SubMesh(stride, nv, idx, layout) ==
    [stride |-> stride, total |-> nv * stride, nv |-> nv, idx |-> idx,
     raw |-> 2 * Len(idx), layout |-> layout, vdata |-> VertexBytes(nv, stride)]

\* A sub-mesh whose vertex records are given byte by byte.
SubMeshOf(stride, records, idx, layout) ==
    [stride |-> stride, total |-> Len(records) * stride, nv |-> Len(records),
     idx |-> idx, raw |-> 2 * Len(idx), layout |-> layout, vdata |-> Concat(records)]

\* A vertex record of stride 32: position, 4 unused bytes, the UV pair at
\* stride - 16 and the CM pair at stride - 8, each float as its 4 bytes.
Record32(n, u, vv, cu, cv) ==
    Concat(<<[j \in 1..12 |-> n + j], Zeros(4), u, vv, cu, cv>>)

Quarter      == <<62, 128, 0, 0>>
Half         == <<63, 0, 0, 0>>
ThreeQuarter == <<63, 64, 0, 0>>
One          == <<63, 128, 0, 0>>
NaN          == <<127, 192, 0, 0>>
PlusInf      == <<127, 128, 0, 0>>
MinusInf     == <<255, 128, 0, 0>>
Other        == <<64, 73, 15, 219>>

\* One sub-mesh of 4 vertices of stride 32 stored after its indices, with
\* finite and non-finite UV and CM components.
UVBuffer ==
    ChunkBytes(0, 0, 1,
        <<SubMeshOf(32, <<Record32(0, Quarter, ThreeQuarter, Half, One),
                          Record32(20, NaN, Quarter, Quarter, PlusInf),
                          Record32(40, ThreeQuarter, Other, MinusInf, Half),
                          Record32(60, Half, Zeros(4), One, Quarter)>>,
                    <<0, 1, 2, 3>>, "div")>>)

Truncations(buf) == {SubSeq(buf, 1, n) : n \in 0..Len(buf)}

\* One well-formed chunk, one sub-mesh of 4 vertices of stride 32, indices
\* 0 1 2 65535 1 2 3, in every layout, with and without a skipped table entry.
EndToEndStream == <<0, 1, 2, Sentinel, 1, 2, 3>>

EndToEndBuffer == ChunkBytes(0, 0, 1, <<SubMesh(32, 4, EndToEndStream, "dvi")>>)

EndToEndBuffers ==
    {ChunkBytes(fdo, tableCount, 1, <<SubMesh(32, 4, EndToEndStream, layout)>>) :
        fdo \in {0, 40}, tableCount \in {0, 1}, layout \in {"dvi", "div", "ivd"}}

\* Two sub-meshes: the first has stride 0, the second has an index past its
\* 3 vertices and lies before its descriptor.
TwoSubBuffer ==
    ChunkBytes(128, 1, 2, <<SubMesh(0, 0, <<>>, "dvi"),
                            SubMesh(12, 3, <<0, 5, 1, 2, 0>>, "ivd")>>)

\* A sub-mesh of one vertex, whose only triangle is out of range, then one of
\* 4 vertices stored after its indices.
NoFaceBuffer ==
    ChunkBytes(0, 0, 2, <<SubMesh(12, 1, <<0, 1, 2>>, "dvi"),
                          SubMesh(12, 4, <<0, 1, 2, 3, 7, 1, 3, 0>>, "div")>>)

\* Two chunks with one sub-mesh each.
TwoChunkBuffer ==
    ChunkBytes(0, 1, 1, <<SubMesh(12, 3, <<0, 1, 2>>, "dvi")>>)
    \o ChunkBytes(40, 0, 1, <<SubMesh(16, 3, <<2, 1, 0, 2>>, "ivd")>>)

\* A chunk followed by two signatures at the very end of the file.
TailSignaturesBuffer ==
    ChunkBytes(0, 0, 1, <<SubMesh(12, 3, <<0, 1, 2>>, "dvi")>>) \o Sig \o Sig

\* Two chunks.  The wildcard bytes of the first signature are 33 EA 00 00 and
\* the 4 bytes after it 2D 00 02 1C, so that the pattern occurs again 4 bytes
\* after the first occurrence; the wildcard bytes of the second signature
\* hold a line feed and a carriage return.
OverlapBuffer ==
    ChunkBytesWith(SigOf(<<51, 234, 0, 0>>), <<45, 0, 2, 28>>, 0, 0, 1,
                   <<SubMesh(12, 3, <<0, 1, 2>>, "dvi")>>)
    \o ChunkBytesWith(SigOf(<<10, 13, 255, 0>>), Zeros(4), 0, 0, 1,
                      <<SubMesh(12, 3, <<2, 1, 0>>, "dvi")>>)

\* Two sub-meshes in a first chunk and one in a second, all three decodable.
ThreeMeshBuffer ==
    ChunkBytes(0, 0, 2, <<SubMesh(12, 3, <<0, 1, 2>>, "dvi"),
                          SubMesh(12, 3, <<2, 1, 0>>, "div")>>)
    \o ChunkBytes(0, 1, 1, <<SubMesh(12, 3, <<0, 1, 2>>, "ivd")>>)

\* One sub-mesh whose index stream holds the strip [0, 1, 2] twice.
RepeatStripBuffer ==
    ChunkBytes(0, 0, 1, <<SubMesh(12, 3, <<0, 1, 2, 65535, 0, 1, 2>>, "dvi")>>)

\* One sub-mesh whose total size, 41, is 3 records of stride 12 and 5 bytes
\* more, and whose raw face count, 7, is odd; a fourth record and a fourth
\* index follow in the file.
RemainderBuffer ==
    ChunkBytes(0, 0, 1,
        <<[SubMesh(12, 4, <<0, 1, 2, 3>>, "dvi") EXCEPT !.total = 41, !.raw = 7]>>)

\* One sub-mesh in a chunk whose FaceDataOff bytes are F0 FF FF FF, -16 as a
\* signed integer; the relative offsets of the descriptor are 16 more than
\* with a FaceDataOff of 0.
NegativeBaseBuffer ==
    ChunkBytes(-16, 0, 1, <<SubMesh(12, 3, <<0, 1, 2>>, "dvi")>>)

\* A file that ends inside a chunk header whose sub-mesh count is 256 or more.
ShortHeaderBuffer ==
    Concat(<<Sig, Zeros(4), LE32(0), LE32(0), BE32(0), BE32(1), Zeros(12), BE32(0),
             <<0, 0, 1>>>>)

\* A chunk whose only sub-mesh has stride 0, then a chunk whose first
\* sub-mesh has stride 0 and whose second is whole.
EmptyFirstBuffer ==
    ChunkBytes(0, 0, 1, <<SubMesh(0, 0, <<>>, "dvi")>>)
    \o ChunkBytes(0, 0, 2, <<SubMesh(0, 0, <<>>, "dvi"), SubMesh(12, 3, <<0, 1, 2>>, "dvi")>>)

\* Five records of stride 4 at the end of the buffer: the positions of the
\* last two run beyond the end.
SmallStrideBuffer == ChunkBytes(0, 0, 1, <<SubMesh(4, 5, <<0, 1, 2>>, "div")>>)

Buffers ==
    {ShortHeaderBuffer, ThreeMeshBuffer, RepeatStripBuffer, RemainderBuffer,
     NegativeBaseBuffer, SmallStrideBuffer, EmptyFirstBuffer} \cup Truncations(UVBuffer) \cup Truncations(OverlapBuffer) \cup Truncations(EndToEndBuffer) \cup EndToEndBuffers \cup Truncations(TwoSubBuffer)
    \cup Truncations(NoFaceBuffer) \cup Truncations(TwoChunkBuffer)
    \cup Truncations(TailSignaturesBuffer)

-----------------------------------------------------------------------------
(* Index streams for the strip decoder, each wrapped in a well-formed chunk  *)
(* with StripVerts vertices.                                               *)

MaxLen == 4
MaxIdx == 3

StripVerts == MaxIdx

RECURSIVE SeqsUpTo(_, _)
SeqsUpTo(S, n) ==
    IF n = 0 THEN {<<>>}
    ELSE LET shorter == SeqsUpTo(S, n - 1)
         IN  shorter \cup {Append(q, e) : q \in {r \in shorter : Len(r) = n - 1}, e \in S}

Streams ==
    SeqsUpTo((0..MaxIdx) \cup {Sentinel}, MaxLen)
    \cup {<<0, 0, 1, 2, 3>>, <<0, 1, 2, 3, 4>>, <<2, 1, 0, 0, 1, 2>>,
          <<1, 2, 3, Sentinel, 4, 5, Sentinel, Sentinel, 6, 7, 8>>}

StreamBuffer(idx) == ChunkBytes(0, 0, 1, <<SubMesh(12, StripVerts, idx, "dvi")>>)

-----------------------------------------------------------------------------
(* find_strings_by_signature_in_data, the string search run on the file's  *)
(* bytes before the mesh import (lines 69-188).                            *)

MAX_POTENTIAL_STRING_LENGTH == 64
MIN_EXTRACTED_STRING_LENGTH == 4
CONTEXT_SIZE == 16
STRING_CONTEXT_SIZE == 5

\* byte in ALLOWED_CHARS_BYTES: ASCII letters, digits, "_", "-" and ".".
Allowed(b) ==
    \/ b >= 65 /\ b <= 90
    \/ b >= 97 /\ b <= 122
    \/ b >= 48 /\ b <= 57
    \/ b \in {95, 45, 46}

\* bytes.hex(): two digits per byte, high one first, as digit values 0..15.
Hex(b) == [k \in 1..(2 * Len(b)) |-> IF k % 2 = 1 THEN b[(k + 1) \div 2] \div 16
                                      ELSE b[k \div 2] % 16]

\* data[a:b] for 0 <= a.
Slice(d, a, b) == IF a >= b \/ a >= Len(d) THEN <<>> ELSE SubSeq(d, a + 1, Min(b, Len(d)))

\* The signature occurs in d at 0-based offset o.
OccursAt(d, signature, o) ==
    /\ o >= 0
    /\ o + Len(signature) <= Len(d)
    /\ \A k \in 1..Len(signature) : d[o + k] = signature[k]

\* data.find(signature, start): the lowest offset at or after start, or -1.
Find(d, signature, start) ==
    LET at == {o \in start..(Len(d) - Len(signature)) : OccursAt(d, signature, o)}
    IN  IF at = {} THEN -1 ELSE CHOOSE o \in at : \A q \in at : o <= q

\* The bytes taken by the extraction loop: allowed bytes from start up to
\* string_search_end, ending at the first byte that is not allowed.
ExtractString(d, start, max_string_length) ==
    LET stop == Min(Len(d), start + max_string_length)
        bad  == {k \in start..(stop - 1) : ~Allowed(d[k + 1])}
        end  == IF bad = {} THEN stop ELSE CHOOSE k \in bad : \A q \in bad : k <= q
    IN  Slice(d, start, end)

\* The dictionary appended for the signature found at signature_offset.
ResultRecord(d, info, signature_offset) ==
    LET signature_len       == Len(info.signature)
        string_start_offset == signature_offset + info.relative_string_offset
        extracted           == ExtractString(d, string_start_offset, MAX_POTENTIAL_STRING_LENGTH)
        string_end_offset   == string_start_offset + Len(extracted)
        is_valid_string     == Len(extracted) >= MIN_EXTRACTED_STRING_LENGTH
    IN  [type                  |-> "fixed_signature_string",
         signature_offset      |-> signature_offset,
         signature             |-> Hex(info.signature),
         signature_description |-> info.description,
         context_before        |->
             Hex(Slice(d, Max(0, signature_offset - CONTEXT_SIZE), signature_offset)),
         context_after         |->
             Hex(Slice(d, signature_offset + signature_len,
                       Min(Len(d), signature_offset + signature_len + CONTEXT_SIZE))),
         string_found          |-> is_valid_string,
         string_offset         |-> IF is_valid_string THEN string_start_offset ELSE -1,
         string                |-> IF is_valid_string THEN extracted ELSE <<>>,
         string_context_before |->
             IF is_valid_string
             THEN Hex(Slice(d, Max(0, string_start_offset - STRING_CONTEXT_SIZE),
                            string_start_offset))
             ELSE <<>>,
         string_context_after  |->
             IF is_valid_string
             THEN Hex(Slice(d, string_end_offset,
                            Min(Len(d), string_end_offset + STRING_CONTEXT_SIZE)))
             ELSE <<>>]

\* current_offset after the occurrence at signature_offset.
ResumeAtNextByte(signature_offset, signature_len) == signature_offset + 1

ResumeAfter(signature_offset, signature_len) == signature_offset + signature_len

FindIdle ==
    /\ findPc = "idle"
    /\ data = <<>>
    /\ signatures_info = <<>>
    /\ sigNo = 1
    /\ current_offset = 0
    /\ results = <<>>

\* One pass of the while loop in which data.find finds the signature.
SearchStep ==
    /\ findPc = "search"
    /\ sigNo <= Len(signatures_info)
    /\ current_offset < Len(data)
    /\ LET info             == signatures_info[sigNo]
           signature_offset == Find(data, info.signature, current_offset)
           string_start     == signature_offset + info.relative_string_offset
       IN  /\ signature_offset # -1
           /\ results' = IF string_start < 0 \/ string_start >= Len(data)
                         THEN results
                         ELSE Append(results, ResultRecord(data, info, signature_offset))
           /\ current_offset' = ResumeAfter(signature_offset, Len(info.signature))
    /\ UNCHANGED <<findPc, data, signatures_info, sigNo>>
    /\ UNCHANGED <<importVars, markVars>>

\* The while loop ends, at its test or at the break, and the for loop takes
\* the next sig_info with current_offset = 0.
NextSignature ==
    /\ findPc = "search"
    /\ sigNo <= Len(signatures_info)
    /\ \/ current_offset >= Len(data)
       \/ Find(data, signatures_info[sigNo].signature, current_offset) = -1
    /\ sigNo' = sigNo + 1
    /\ current_offset' = 0
    /\ UNCHANGED <<findPc, data, signatures_info, results>>
    /\ UNCHANGED <<importVars, markVars>>

ReturnResults ==
    /\ findPc = "search"
    /\ sigNo > Len(signatures_info)
    /\ findPc' = "returned"
    /\ UNCHANGED <<data, signatures_info, sigNo, current_offset, results>>
    /\ UNCHANGED <<importVars, markVars>>

NextFind == SearchStep \/ NextSignature \/ ReturnResults

\* Buffers and signatures of the search: bytes 1 and "A", signatures that can
\* and cannot overlap themselves, string starts before, inside and after the
\* data.
MaxData == 6

RECURSIVE DataOfLen(_)
DataOfLen(n) ==
    IF n = 0 THEN {<<>>} ELSE {Append(d, b) : d \in DataOfLen(n - 1), b \in {1, 65}}

SearchData == UNION {DataOfLen(n) : n \in 0..MaxData}

SigInfos ==
    {[signature |-> s, relative_string_offset |-> r, description |-> "only"] :
        s \in {<<1>>, <<1, 1>>, <<1, 65>>}, r \in {-1, 1, 2, 4}}

SigInfoLists ==
    {<<a>> : a \in SigInfos}
    \cup {<<[signature |-> <<1, 1>>, relative_string_offset |-> 2, description |-> "first"],
            [signature |-> <<1>>, relative_string_offset |-> 1, description |-> "second"]>>}

-----------------------------------------------------------------------------
(* The hex-marking utility, mark_full_mesh_data_with_pattern of test.py,   *)
(* run on the same bytes tmpRead.  Line numbers in this section are those  *)
(* of test.py.                                                             *)

\* rep_sig_bytes, rep_skip1_bytes, rep_header_bytes, rep_skip2_bytes and
\* rep_counts_bytes in file order: "---MESH---__", "PAD1", "FDO_MDS_",
\* twenty "*" and "DT_ST_CT" as ASCII codes.
InitialBlock ==
    <<45, 45, 45, 77, 69, 83, 72, 45, 45, 45, 95, 95>>
    \o <<80, 65, 68, 49>>
    \o <<70, 68, 79, 95, 77, 68, 83, 95>>
    \o [k \in 1..20 |-> 42]
    \o <<68, 84, 95, 83, 84, 95, 67, 84>>

MARKED_INITIAL_BLOCK_LEN == Len(InitialBlock)

\* The five slice assignments at signature_start_index.
MarkInitialBlock(arr, start) ==
    [k \in 1..Len(arr) |->
        IF k > start /\ k <= start + MARKED_INITIAL_BLOCK_LEN
        THEN InitialBlock[k - start] ELSE arr[k]]

\* Sums and products that leave the range the model counts in stay at Beyond;
\* every index at or above Beyond is past the end of every buffer.
MarkerSum(a, b) ==
    IF a >= Beyond \/ b >= Beyond \/ a + b >= Beyond THEN Beyond ELSE a + b

MarkerTimes8(n) == IF n >= Beyond \div 8 THEN Beyond ELSE 8 * n

\* int.from_bytes(byte_array[at : at + 4], byteorder='big')
MarkerBig(arr, at) ==
    Only({IF Len(b) = 4 /\ b[1] >= 64 THEN Beyond ELSE FromBytesBig(b) :
             b \in {Read(arr, at, 4)}})

\* int.from_bytes(byte_array[at : at + 4], byteorder='little')
MarkerLittle(arr, at) == FromBytesLittle(Read(arr, at, 4))

\* The header values of the chunk whose signature starts at start, read from
\* the array as it is when the reads happen.
MarkerHeader(arr, start) ==
    LET hdr    == start + SigLen + 4
        counts == hdr + 8 + 20
        table  == MarkerBig(arr, counts)
    IN  [face_data_off_orig          |-> MarkerLittle(arr, hdr),
         mdata_table_count           |-> table,
         mdata_sub_count             |-> MarkerBig(arr, counts + 4),
         mesh_chunk_start_ref_index  |-> start + SigLen + 4 + 8,
         mdata_sub_table_start_index |-> MarkerSum(counts + 8, MarkerTimes8(table))]

\* One pass of the sub-mesh loop up to the vertex-marking test: the values it
\* derives, or skipped when one of its bounds tests continues.
MarkerSubMesh(arr, h, idx) ==
    LET entry  == MarkerSum(h.mdata_sub_table_start_index, idx * 12 + 8)
        params == MarkerSum(MarkerBig(arr, entry), h.mesh_chunk_start_ref_index + 12)
        vcdo   == MarkerBig(arr, params)
        info   == MarkerSum(vcdo, h.mesh_chunk_start_ref_index)
        base   == MarkerSum(h.face_data_off_orig, h.mesh_chunk_start_ref_index)
    IN  [skipped                 |-> params >= Beyond \/ params + 44 + 4 > Len(arr),
         sub_mesh_params_index   |-> params,
         vert_count_data_off_orig |-> vcdo,
         face_count_value        |-> MarkerBig(arr, MarkerSum(params, 36)),
         vert_chunk_total_size   |-> MarkerBig(arr, info),
         vert_chunk_size         |-> MarkerBig(arr, MarkerSum(info, 4)),
         vertex_data_start_index |-> MarkerSum(MarkerBig(arr, MarkerSum(params, 16)), base),
         face_data_start_index   |-> MarkerSum(MarkerBig(arr, MarkerSum(params, 44)), base)]

\* Passes of the sub-mesh loop the model follows for one chunk.
MaxPass == 2

NoChunk == [marked |-> FALSE]

\* What one pass of the signature loop leaves behind for the signature at
\* start.  The first sub-mesh pass that is not skipped reaches
\* "if vert_count > 0": vert_count is assigned nowhere, the NameError leaves
\* the sub-mesh loop through the outer except and the signature loop goes on.
\* The vertex and face slice assignments are therefore never reached.
MarkerChunk(arr, start) ==
    LET h      == MarkerHeader(arr, start)
        passes == {p \in 0..(Min(h.mdata_sub_count, MaxPass) - 1) :
                      ~MarkerSubMesh(arr, h, p).skipped}
    IN  [marked |-> TRUE, start |-> start, header |-> h,
         raised |-> passes # {},
         sub    |-> IF passes = {} THEN NoChunk
                    ELSE MarkerSubMesh(arr, h, CHOOSE p \in passes : \A q \in passes : p <= q)]

MarkerIdle ==
    /\ markPc = "idle"
    /\ byte_array = <<>>
    /\ total_signatures_found = 0
    /\ initial_blocks_marked = 0
    /\ markChunk = NoChunk
    /\ fileOut = <<>>

\* One pass of "for match in mesh_signature_regex.finditer(bytes(byte_array))":
\* the matches are those of the bytes as read, the writes go to byte_array.
MarkSignature ==
    /\ markPc = "loop"
    /\ total_signatures_found < Len(FindIter(tmpRead))
    /\ total_signatures_found' = total_signatures_found + 1
    /\ LET start == FindIter(tmpRead)[total_signatures_found + 1].start
       IN  IF start + MARKED_INITIAL_BLOCK_LEN > Len(byte_array)
           THEN /\ markChunk' = NoChunk
                /\ UNCHANGED <<byte_array, initial_blocks_marked>>
           ELSE /\ byte_array' = MarkInitialBlock(byte_array, start)
                /\ initial_blocks_marked' = initial_blocks_marked + 1
                /\ markChunk' = MarkerChunk(byte_array', start)
    /\ UNCHANGED <<markPc, fileOut>>
    /\ UNCHANGED <<importVars, findVars>>

\* After the loop: False without writing when signatures were found and none
\* marked, True without writing when none was found, else write and True.
MarkReturn ==
    /\ markPc = "loop"
    /\ total_signatures_found = Len(FindIter(tmpRead))
    /\ IF initial_blocks_marked = 0 /\ total_signatures_found > 0
       THEN markPc' = "False" /\ fileOut' = tmpRead
       ELSE IF total_signatures_found = 0
       THEN markPc' = "True" /\ fileOut' = tmpRead
       ELSE markPc' = "True" /\ fileOut' = byte_array
    /\ UNCHANGED <<byte_array, total_signatures_found, initial_blocks_marked, markChunk>>
    /\ UNCHANGED <<importVars, findVars>>

NextMark == MarkSignature \/ MarkReturn

-----------------------------------------------------------------------------

Variants == {"txd-debug", "fork"}

ImportInit(buffers) ==
    /\ variant \in Variants
    /\ tmpRead \in buffers
    /\ pc = "scan"
    /\ result = "RUNNING"
    /\ matches = <<>> /\ matchNo = 1 /\ mesh_iter = 0
    /\ FaceDataOff = 0 /\ MeshDataSize = 0 /\ MeshChunkStart = 0
    /\ mDataTableCount = 0 /\ mDataSubCount = 0 /\ mDataSubStart = 0
    /\ hdrShort = FALSE
    /\ i = 0
    /\ VertChunkTotalSize = 0 /\ VertChunkSize = 0 /\ VertCount = 0 /\ VertexStart = 0
    /\ FaceCount = 0 /\ FaceStart = 0 /\ descShort = FALSE /\ descFaceCount = 0
    /\ pos = 0 /\ f = 0 /\ tmpList = <<>> /\ StripList = <<>>
    /\ FaceTable = <<>> /\ stripNo = 1 /\ x = 0 /\ flipped = FALSE /\ tmpTable = <<>>
    /\ v = 0 /\ VertTable = <<>> /\ UVTable = <<>> /\ CMTable = <<>>
    /\ bmVerts = <<>> /\ bmFaces = <<>> /\ faceNo = 1
    /\ collection = <<>>

InitWith(buffers) == ImportInit(buffers) /\ MarkerIdle /\ FindIdle

Init == InitWith(Buffers)

Spec == Init /\ [][Next]_vars

\* The whole buffers, and those of the two-chunk buffer cut at every 8th byte.
CutStep == 8

LiveBuffers ==
    {ShortHeaderBuffer, ThreeMeshBuffer, RepeatStripBuffer, RemainderBuffer,
     NegativeBaseBuffer, SmallStrideBuffer, EmptyFirstBuffer, UVBuffer, OverlapBuffer,
     EndToEndBuffer, TwoSubBuffer, NoFaceBuffer, TwoChunkBuffer, TailSignaturesBuffer}
    \cup {SubSeq(TwoChunkBuffer, 1, CutStep * n) : n \in 0..(Len(TwoChunkBuffer) \div CutStep)}

InitLive == InitWith(LiveBuffers)

\* execute is one sequential call: the interpreter takes the next step
\* whenever there is one.
SpecLive == InitLive /\ [][Next]_vars /\ WF_vars(Next)

\* test.py on each buffer: byte_array = bytearray(f.read()), counters at 0.
InitMark ==
    /\ ImportInit(Buffers)
    /\ variant = "txd-debug"
    /\ markPc = "loop"
    /\ byte_array = tmpRead
    /\ total_signatures_found = 0
    /\ initial_blocks_marked = 0
    /\ markChunk = NoChunk
    /\ fileOut = tmpRead
    /\ FindIdle

SpecMark == InitMark /\ [][NextMark]_vars

\* The string search on each buffer and each list of signatures.
InitFind ==
    /\ ImportInit({<<>>})
    /\ variant = "txd-debug"
    /\ MarkerIdle
    /\ findPc = "search"
    /\ data \in SearchData
    /\ signatures_info \in SigInfoLists
    /\ sigNo = 1
    /\ current_offset = 0
    /\ results = <<>>

\* The search is one sequential call.
SpecFind == InitFind /\ [][NextFind]_vars /\ WF_vars(NextFind)

InitStrip == InitWith({StreamBuffer(idx) : idx \in Streams})

SpecStrip == InitStrip /\ [][Next]_vars

-----------------------------------------------------------------------------
(* Properties of strip2face and of the sentinel split (SpecStrip)          *)

\* The three entries of window w (0-based) of strip s are pairwise distinct.
Distinct3(s, w) == s[w + 1] # s[w + 2] /\ s[w + 1] # s[w + 3] /\ s[w + 2] # s[w + 3]

\* The triangle window w yields by the parity of w alone.
ParityTriangle(s, w) ==
    IF w % 2 = 0 THEN <<s[w + 2], s[w + 3], s[w + 1]>>
    ELSE <<s[w + 3], s[w + 2], s[w + 1]>>

\* The triangles of windows 0 .. n-1 of s, each by the parity of its position.
RECURSIVE WindowTriangles(_, _)
WindowTriangles(s, n) ==
    IF n = 0 THEN <<>>
    ELSE IF Distinct3(s, n - 1)
         THEN Append(WindowTriangles(s, n - 1), ParityTriangle(s, n - 1))
         ELSE WindowTriangles(s, n - 1)

InStrip2Face == pc = "strips" /\ stripNo <= Len(StripList)

\* C1: while strip2face runs on strip s and has passed windows 0 .. x-1, its
\* output holds, for each of those windows that is not degenerate and in window
\* order, (s[w+1], s[w+2], s[w]) when w is even and (s[w+2], s[w+1], s[w]) when w
\* is odd, however many degenerate windows come before w; the flip state is the
\* parity of x; and strip [0,0,1,2,3] skips window 0 and emits (2,1,0) for
\* window 1.
C1_WindingByPosition ==
    InStrip2Face =>
        LET s == StripList[stripNo]
        IN  /\ tmpTable = WindowTriangles(s, x)
            /\ flipped = (x % 2 = 1)
            /\ (s = <<0, 0, 1, 2, 3>> /\ x >= 2) => tmpTable[1] = <<2, 1, 0>>

\* strip2face has decoded all three windows of [0,0,1,2,3].
C1_Witness ==
    /\ InStrip2Face
    /\ StripList[stripNo] = <<0, 0, 1, 2, 3>>
    /\ x = 3
    /\ tmpTable = <<<<2, 1, 0>>, <<2, 3, 1>>>>

\* The number of non-degenerate windows among windows 0 .. n-1 of s.
NonDegenerate(s, n) == Cardinality({w \in 0..(n - 1) : Distinct3(s, w)})

AllWindows(s) == IF Len(s) < 3 THEN 0 ELSE Len(s) - 2

\* The triangles of the first n strips.
RECURSIVE TriangleCount(_, _)
TriangleCount(strips, n) ==
    IF n = 0 THEN 0
    ELSE TriangleCount(strips, n - 1) + NonDegenerate(strips[n], AllWindows(strips[n]))

\* C2: strip2face emits one triangle for each window whose three entries are
\* pairwise distinct and nothing for the others: after x windows its output has
\* as many triangles as there are non-degenerate windows among them, a strip
\* shorter than 3 has no window and no triangle, every finished strip has added
\* exactly its count of non-degenerate windows (L-2 when none is degenerate) to
\* the face table, and every emitted triangle has three pairwise distinct indices.
C2_OnePerWindow ==
    pc = "strips" =>
        /\ Len(FaceTable) = TriangleCount(StripList, stripNo - 1)
        /\ \A k \in 1..Len(FaceTable) : Cardinality(FaceSet(FaceTable[k])) = 3
        /\ stripNo <= Len(StripList) =>
               LET s == StripList[stripNo]
               IN  /\ x <= AllWindows(s)
                   /\ Len(tmpTable) = NonDegenerate(s, x)
                   /\ Len(s) < 3 => tmpTable = <<>>
                   /\ \A k \in 1..Len(tmpTable) : Cardinality(FaceSet(tmpTable[k])) = 3

\* A strip of length 5 without degenerate windows has been decoded to 3 triangles.
C2_Witness ==
    /\ pc = "strips"
    /\ stripNo = 2
    /\ StripList = <<<<0, 1, 2, 3, 4>>>>
    /\ Len(FaceTable) = 3

\* The k-th index of the stream of sub-mesh i, and the first n indices.
IndexAt(k) == FromBytesBig(Read(tmpRead, FaceStart + 2 * (k - 1), 2))

IndexStream(n) == [k \in 1..n |-> IndexAt(k)]

\* The positions at which a run of non-sentinel indices starts.
RunStarts(s) == {j \in 1..Len(s) : s[j] # Sentinel /\ (j = 1 \/ s[j - 1] = Sentinel)}

\* The last position of the run that starts at j.
RunEnd(s, j) ==
    CHOOSE e \in j..Len(s) :
        /\ \A k \in j..e : s[k] # Sentinel
        /\ e = Len(s) \/ s[e + 1] = Sentinel

NthStart(s, n) == CHOOSE j \in RunStarts(s) : Cardinality({k \in RunStarts(s) : k < j}) = n - 1

\* The maximal non-empty runs of non-sentinel indices of s, in stream order.
MaximalRuns(s) ==
    [n \in 1..Cardinality(RunStarts(s)) |->
        SubSeq(s, NthStart(s, n), RunEnd(s, NthStart(s, n)))]

\* C3: the strips are the maximal non-empty runs of non-sentinel indices of the
\* stream, in stream order, during the index loop (counting the open strip) and
\* after it: no strip holds 65535, no strip is empty, a trailing run is kept,
\* the strips concatenated are the stream without its sentinels, and
\* [1,2,3,65535,4,5,65535,65535,6,7,8] yields [1,2,3], [4,5], [6,7,8].
C3_SentinelSplit ==
    /\ pc = "index" =>
           StripList \o (IF tmpList = <<>> THEN <<>> ELSE <<tmpList>>)
               = MaximalRuns(IndexStream(f))
    /\ pc = "strips" =>
           LET stream == IndexStream(FaceCount)
           IN  /\ StripList = MaximalRuns(stream)
               /\ \A k \in 1..Len(StripList) :
                      /\ StripList[k] # <<>>
                      /\ \A j \in 1..Len(StripList[k]) : StripList[k][j] # Sentinel
               /\ Concat(StripList) = SelectSeq(stream, LAMBDA e : e # Sentinel)
               /\ stream = <<1, 2, 3, Sentinel, 4, 5, Sentinel, Sentinel, 6, 7, 8>>
                      => StripList = <<<<1, 2, 3>>, <<4, 5>>, <<6, 7, 8>>>>

\* The stream [1,2,3,65535,4,5,65535,65535,6,7,8] has been split.
C3_Witness ==
    /\ pc = "strips"
    /\ FaceCount = 11
    /\ IndexStream(11) = <<1, 2, 3, Sentinel, 4, 5, Sentinel, Sentinel, 6, 7, 8>>
    /\ StripList = <<<<1, 2, 3>>, <<4, 5>>, <<6, 7, 8>>>>

-----------------------------------------------------------------------------
(* Properties of the import (Spec)                                         *)

\* C4 as stated: the end-to-end buffer yields one mesh of 4 vertices whose first
\* strip gives the single triangle (1,2,0) and whose second strip [1,2,3] gives
\* two triangles, three in all.
C4_SecondStripTwoTriangles ==
    (pc = "done" /\ tmpRead \in EndToEndBuffers) =>
        /\ Len(collection) = 1
        /\ Len(collection[1].verts) = 4
        /\ collection[1].faces[1] = <<1, 2, 0>>
        /\ Len(collection[1].faces) = 1 + 2

\* C4, amended: the end-to-end buffer yields exactly one mesh, of 4 vertices,
\* whose first strip [0,1,2] gives the single triangle (1,2,0) and whose second
\* strip [1,2,3], having one window, gives the single triangle (2,3,1).
C4_EndToEnd ==
    (pc = "done" /\ tmpRead \in EndToEndBuffers) =>
        /\ result = "FINISHED"
        /\ Len(collection) = 1
        /\ collection[1].name = <<0, 0>>
        /\ Len(collection[1].verts) = 4
        /\ collection[1].faces = <<<<1, 2, 0>>, <<2, 3, 1>>>>

\* The import of the end-to-end buffer is complete.
C4_Witness ==
    /\ pc = "done"
    /\ tmpRead = EndToEndBuffer
    /\ Len(collection) = 1
    /\ Len(collection[1].faces) = 2

InRange(face, n) == \A c \in 1..3 : face[c] \in 0..(n - 1)

\* C5: every triangle of every mesh in the collection, and of the BMesh being
\* built, has its three indices in [0, number of vertices placed), which is at
\* most VertCount; and every triangle of the face table that the face loop has
\* passed and whose indices are in range is in the BMesh, whatever triangles
\* were dropped before it.
C5_TrianglesInRange ==
    /\ \A k \in 1..Len(collection) :
           \A j \in 1..Len(collection[k].faces) :
               InRange(collection[k].faces[j], Len(collection[k].verts))
    /\ pc = "bmfaces" =>
           /\ Len(bmVerts) <= VertCount
           /\ \A j \in 1..Len(bmFaces) : InRange(bmFaces[j], Len(bmVerts))
           /\ \A k \in 1..(faceNo - 1) :
                  InRange(FaceTable[k], Len(bmVerts)) =>
                      \E j \in 1..Len(bmFaces) : FaceSet(bmFaces[j]) = FaceSet(FaceTable[k])

\* A mesh of 4 vertices was built from a face table whose third, fourth and
\* fifth triangles are out of range and whose sixth is kept.
C5_Witness ==
    /\ pc = "done"
    /\ tmpRead = NoFaceBuffer
    /\ Len(FaceTable) = 6
    /\ ~InRange(FaceTable[3], 4)
    /\ collection[Len(collection)].faces = <<<<1, 2, 0>>, <<3, 2, 1>>, <<0, 3, 1>>>>

\* C6: after the import every mesh object in the collection has at least one
\* vertex and at least one triangle.
C6_NoEmptyMesh ==
    pc = "done" =>
        \A k \in 1..Len(collection) :
            collection[k].verts # <<>> /\ collection[k].faces # <<>>

\* The descriptor of sub-mesh i asks for more indices than the buffer holds
\* after a face data start that lies inside the buffer.
ClampCase ==
    /\ variant = "txd-debug"
    /\ pc \in {"index", "strips", "verts", "mesh", "bmfaces"}
    /\ FaceStart < Len(tmpRead)
    /\ FaceStart + 2 * descFaceCount > Len(tmpRead)

\* C7: in txd-debug, when the face data start lies inside the buffer and
\* FaceStart + 2 * (index count of the descriptor) exceeds the buffer, FaceCount
\* is floor((Len(tmpRead) - FaceStart) / 2), the index loop never stops short of
\* it, exactly FaceCount indices have been read when the loop ends, and the
\* sub-mesh goes on to strip decoding with the import still running.
C7_ClampedFaceCount ==
    ClampCase =>
        /\ FaceCount = (Len(tmpRead) - FaceStart) \div 2
        /\ result = "RUNNING"
        /\ pc = "index" => /\ f <= FaceCount
                           /\ pos = FaceStart + 2 * f
                           /\ f < FaceCount => pos + 2 <= Len(tmpRead)
        /\ pc # "index" => f = FaceCount /\ pos = FaceStart + 2 * FaceCount

\* A clamped sub-mesh whose remaining indices still give a triangle.
C7_Witness ==
    /\ ClampCase
    /\ pc = "bmfaces"
    /\ 0 < FaceCount /\ FaceCount < descFaceCount
    /\ bmFaces # <<>>

\* C8: after the import no mesh object in the collection comes from a chunk
\* whose header reads came back short, and the import was not cancelled.
C8_ShortHeaderNoMesh ==
    pc = "done" =>
        /\ result # "CANCELLED"
        /\ \A k \in 1..Len(collection) : ~collection[k].hdrShort

\* C9: the step that reads a sub-mesh descriptor with a stride of zero or less
\* leaves the collection and the result as they are and moves to sub-mesh
\* index i + 1 of the same chunk.
C9_NonPositiveStride ==
    [][(pc = "sub" /\ i < mDataSubCount /\ VertChunkSize' <= 0) =>
          /\ pc' = "sub"
          /\ i' = i + 1
          /\ matchNo' = matchNo
          /\ collection' = collection
          /\ result' = result]_vars

\* Sub-mesh 0 had stride 0 and sub-mesh 1 of the same chunk was decoded.
C9_Witness ==
    /\ pc = "done"
    /\ tmpRead = TwoSubBuffer
    /\ Len(collection) = 1
    /\ collection[1].name = <<0, 1>>
    /\ collection[1].faces = <<<<2, 0, 1>>>>

\* C10: after the import by txd-debug no mesh object in the collection comes
\* from a sub-mesh one of whose descriptor reads came back short.
C10_ShortDescriptorNoMesh ==
    (variant = "txd-debug" /\ pc = "done") =>
        \A k \in 1..Len(collection) : ~collection[k].descShort

\* C11: a vertex record that runs past the end of the buffer does not end
\* the vertex loop and does not abandon the sub-mesh: the loop goes on to
\* the next vertex.  Violated by both versions: the first stops reading
\* vertices at that record (line 400), the second leaves the sub-mesh
\* (fork line 198).
C11_ShortVertexGoesOn ==
    [][(/\ pc = "verts"
        /\ v < VertCount
        /\ VertexStart + v * VertChunkSize + VertChunkSize > Len(tmpRead))
       => (pc' = "verts" /\ v' = v + 1)]_vars

\* The pair of a table that loop c of face k of mesh m was given.
TablePair(m, table, k, c) == table[m.faces[k][c] + 1]

FinitePair(uv) == IsFinite(uv[1]) /\ IsFinite(uv[2])

\* The layer of mesh m holds, loop by loop, the pair of the table when that
\* pair is finite and (0.0, 0.0) when it is not.
ExposedFrom(m, layer, table) ==
    \A k \in 1..Len(m.faces) : \A c \in 1..3 :
        /\ FinitePair(layer[k][c])
        /\ FinitePair(TablePair(m, table, k, c)) => layer[k][c] = TablePair(m, table, k, c)
        /\ ~FinitePair(TablePair(m, table, k, c)) => layer[k][c] = <<F0, F0>>

\* C12: every UV pair of both layers (uv0 and uv1) of every mesh in the
\* collection has finite components only; when a mesh is written, a pair of
\* the UV or CM table with a NaN or infinite component is exposed as
\* (0.0, 0.0) as a whole, and a finite pair is exposed unchanged.
C12_FiniteUVs ==
    /\ [](\A n \in 1..Len(collection) :
            \A k \in 1..Len(collection[n].uv) : \A c \in 1..3 :
                FinitePair(collection[n].uv[k][c]) /\ FinitePair(collection[n].cm[k][c]))
    /\ [][(pc = "bmfaces" /\ pc' = "sub" /\ Len(collection') = Len(collection)
            /\ collection' # collection)
           => LET m == collection'[Len(collection')]
              IN  /\ Len(m.uv) = Len(m.faces) /\ Len(m.cm) = Len(m.faces)
                  /\ ExposedFrom(m, m.uv, UVTable)
                  /\ ExposedFrom(m, m.cm, CMTable)]_vars

\* A mesh has just been written whose UV table held a pair with a NaN, whose
\* CM table held a pair with an infinity, both exposed as (0.0, 0.0), next
\* to a finite pair other than (0.0, 0.0) exposed as it was.
C12_Witness ==
    /\ pc = "sub"
    /\ collection # <<>>
    /\ LET m == collection[Len(collection)]
       IN  /\ m.faces # <<>>
           /\ \A k \in 1..Len(m.faces) : \A c \in 1..3 :
                  m.faces[k][c] < Len(UVTable) /\ m.faces[k][c] < Len(CMTable)
           /\ \E k \in 1..Len(m.faces) : \E c \in 1..3 :
                  /\ ~IsFinite(TablePair(m, UVTable, k, c)[1])
                  /\ IsFinite(TablePair(m, UVTable, k, c)[2])
                  /\ TablePair(m, UVTable, k, c)[2] # F0
                  /\ m.uv[k][c] = <<F0, F0>>
           /\ \E k \in 1..Len(m.faces) : \E c \in 1..3 :
                  /\ ~IsFinite(TablePair(m, CMTable, k, c)[2])
                  /\ m.cm[k][c] = <<F0, F0>>
           /\ \E k \in 1..Len(m.faces) : \E c \in 1..3 :
                  /\ FinitePair(TablePair(m, UVTable, k, c))
                  /\ m.uv[k][c] = TablePair(m, UVTable, k, c)
                  /\ m.uv[k][c] # <<F0, F0>>

\* The two big-endian floats at bytes at .. at + 7 of the buffer.
RawPair(at) ==
    <<Unpack(SubSeq(tmpRead, at + 1, at + 4)), Unpack(SubSeq(tmpRead, at + 5, at + 8))>>

\* C13: the pair stored in the UV table and the pair stored in the CM table
\* for a vertex are (u, 1 - v) of the raw pair (u, v) of the vertex record,
\* the raw pairs being the last 16 bytes of the record; raw (0.25, 0.75) is
\* stored as (0.25, 0.25).
C13_VInverted ==
    [][(pc = "verts" /\ Len(UVTable') = Len(UVTable) + 1)
       => LET uvAt == VertexStart + v * VertChunkSize + VertChunkSize - 16
              cmAt == uvAt + 8
              uv   == UVTable'[Len(UVTable')]
              cm   == CMTable'[Len(CMTable')]
          IN  /\ Len(CMTable') = Len(UVTable')
              /\ (uvAt >= 0 /\ uvAt + 8 <= Len(tmpRead))
                 => /\ uv = <<RawPair(uvAt)[1], OneMinus(RawPair(uvAt)[2])>>
                    /\ RawPair(uvAt) = <<Unpack(Quarter), Unpack(ThreeQuarter)>>
                       => uv = <<Unpack(Quarter), Unpack(Quarter)>>
              /\ (cmAt >= 0 /\ cmAt + 8 <= Len(tmpRead))
                 => /\ cm = <<RawPair(cmAt)[1], OneMinus(RawPair(cmAt)[2])>>
                    /\ RawPair(cmAt) = <<Unpack(Quarter), Unpack(ThreeQuarter)>>
                       => cm = <<Unpack(Quarter), Unpack(Quarter)>>]_vars

\* The first vertex read has the raw pairs (0.25, 0.75) and (0.5, 1.0), stored
\* as (0.25, 0.25) and (0.5, 0.0).
C13_Witness ==
    /\ pc = "verts"
    /\ Len(UVTable) >= 1
    /\ VertChunkSize >= 16
    /\ VertexStart + VertChunkSize <= Len(tmpRead)
    /\ RawPair(VertexStart + VertChunkSize - 16) = <<Unpack(Quarter), Unpack(ThreeQuarter)>>
    /\ RawPair(VertexStart + VertChunkSize - 8) = <<Unpack(Half), Unpack(One)>>
    /\ UVTable[1] = <<Unpack(Quarter), Unpack(Quarter)>>
    /\ CMTable[1] = <<Unpack(Half), F0>>

\* Bytes p..p+3 of the buffer are 33 EA 00 00 and bytes p+8..p+11 are
\* 2D 00 02 1C, whatever bytes p+4..p+7 are.
SignatureAt(p) ==
    /\ p >= 0 /\ p + 12 <= Len(tmpRead)
    /\ SubSeq(tmpRead, p + 1, p + 4) = <<51, 234, 0, 0>>
    /\ SubSeq(tmpRead, p + 9, p + 12) = <<45, 0, 2, 28>>

Reported == {matches[n].start : n \in 1..Len(matches)}

\* C14: after the scan, the reported offsets are occurrences of the
\* signature, in increasing order and at least 12 apart; every occurrence is
\* reported unless it begins inside a reported match, which happens only 4
\* bytes after the start of that match; each match ends 12 bytes after its
\* start; a buffer without occurrence gives no match, no mesh and no error.
C14_LeftmostNonOverlapping ==
    pc # "scan" =>
        /\ \A n \in 1..Len(matches) :
              SignatureAt(matches[n].start) /\ matches[n].end = matches[n].start + 12
        /\ \A n \in 1..(Len(matches) - 1) : matches[n + 1].start >= matches[n].start + 12
        /\ \A p \in 0..Len(tmpRead) :
              SignatureAt(p) =>
                  \/ p \in Reported
                  \/ \E m \in Reported : m < p /\ p < m + 12 /\ p = m + 4
        /\ \A p \in Reported :
              \A q \in 0..(p - 1) :
                  (SignatureAt(q) /\ q + 12 > p) => q \notin Reported
        /\ (\A p \in 0..Len(tmpRead) : ~SignatureAt(p))
              => /\ matches = <<>>
                 /\ collection = <<>>
                 /\ result # "RAISED" /\ result # "CANCELLED"
                 /\ (pc = "done" => result = "FINISHED")

\* The scan has reported a match, skipped an occurrence that begins 4 bytes
\* after the start of that match, and reported a later match whose wildcard
\* bytes hold a line feed.
C14_Witness ==
    /\ pc = "done"
    /\ Len(matches) = 2
    /\ SignatureAt(matches[1].start + 4)
    /\ matches[1].start + 4 \notin Reported
    /\ tmpRead[matches[2].start + 5] = 10
    /\ Len(collection) = 2

\* Lexicographic order of (chunkIndex, subMeshIndex).
LexLess(a, b) == a[1] < b[1] \/ (a[1] = b[1] /\ a[2] < b[2])

\* The names in the collection increase strictly, every name belongs to a
\* chunk already begun, and the chunks are in ascending signature offset.
NamesInOrder ==
    /\ \A a \in 1..Len(collection) : \A b \in 1..Len(collection) :
          a < b => LexLess(collection[a].name, collection[b].name)
    /\ \A c \in 1..Len(collection) :
          /\ collection[c].name[1] <= mesh_iter
          /\ collection[c].name[1] < Len(matches)
          /\ (pc = "chunk" => collection[c].name[1] < mesh_iter)
    /\ \A n \in 1..(Len(matches) - 1) : matches[n].start < matches[n + 1].start

\* C15: meshes enter the collection in strictly increasing lexicographic
\* order of (chunkIndex, subMeshIndex), the chunks being numbered in ascending
\* order of their signature offsets; a mesh is named after the chunk and the
\* sub-mesh being processed, the sub-mesh index moves on when the mesh is
\* finished, so that a sub-mesh gives at most one mesh and no two meshes
\* carry the same identifier.
C15_EmissionOrder ==
    /\ []NamesInOrder
    /\ [][Len(collection') > Len(collection)
           => /\ Len(collection') = Len(collection) + 1
              /\ collection'[Len(collection')].name = <<matchNo - 1, i>>
              /\ mesh_iter = matchNo - 1
              /\ \A a \in 1..Len(collection) :
                    /\ collection'[a] = collection[a]
                    /\ LexLess(collection[a].name, collection'[Len(collection')].name)]_vars
    /\ [][/\ mesh_iter' >= mesh_iter
           /\ ((mesh_iter' = mesh_iter /\ pc # "chunk") => i' >= i)
           /\ ((pc = "bmfaces" /\ pc' \notin {"bmfaces", "done"})
                 => (i' = i + 1 /\ mesh_iter' = mesh_iter))]_vars

\* The import has finished with Mesh_0_0, Mesh_0_1 and Mesh_1_0, in this order.
C15_Witness ==
    /\ pc = "done"
    /\ Len(matches) = 2
    /\ [k \in 1..Len(collection) |-> collection[k].name] = <<<<0, 0>>, <<0, 1>>, <<1, 0>>>>

\* C16: whatever the buffer, the import runs to its end and returns
\* FINISHED: it does not raise and does not cancel.  Violated by the first
\* version, whose clean-up of a mesh without faces reads the name of the
\* mesh data block it has just removed (lines 511-512).
C16_AlwaysFinished == pc = "done" => result = "FINISHED"

\* Unsigned integers at an absolute offset of the buffer.
U32(at) ==
    tmpRead[at + 1] * 16777216 + tmpRead[at + 2] * 65536 + tmpRead[at + 3] * 256
    + tmpRead[at + 4]

U32LE(at) ==
    tmpRead[at + 4] * 16777216 + tmpRead[at + 3] * 65536 + tmpRead[at + 2] * 256
    + tmpRead[at + 1]

U16(at) == tmpRead[at + 1] * 256 + tmpRead[at + 2]

\* What sub-mesh idx of the chunk of match n holds, from the buffer alone:
\* every offset is taken from the header of that chunk and the descriptor of
\* that sub-mesh.
FreshDescriptor(n, idx) ==
    LET base == matches[n].end + 12
        fdo  == U32LE(matches[n].end + 4)
        sub  == base + 28 + 8 * U32(base + 20)
        d    == U32(U32(sub + 12 * idx + 8) + base + 12) + base
    IN  [stride      |-> U32(d + 4),
         VertCount   |-> U32(d) \div U32(d + 4),
         VertexStart |-> U32(d + 16) + fdo + base,
         FaceCount   |-> U32(d + 40) \div 2,
         FaceStart   |-> U32(d + 48) + fdo + base]

\* The indices of the sub-mesh that lie inside the buffer.
FreshStream(d) ==
    LET n == IF d.FaceStart >= Len(tmpRead) THEN 0
             ELSE Min(d.FaceCount, (Len(tmpRead) - d.FaceStart) \div 2)
    IN  [k \in 1..n |-> U16(d.FaceStart + 2 * (k - 1))]

\* The triangles of the first n strips, strip after strip.
RECURSIVE StripTriangles(_, _)
StripTriangles(strips, n) ==
    IF n = 0 THEN <<>>
    ELSE StripTriangles(strips, n - 1) \o WindowTriangles(strips[n], AllWindows(strips[n]))

\* The positions of the vertex records that lie inside the buffer.
FreshVerts(d) ==
    LET n == IF d.VertexStart >= Len(tmpRead) THEN 0
             ELSE Cardinality({k \in 0..(Min(d.VertCount, Len(tmpRead)) - 1) :
                      /\ d.VertexStart + k * d.stride + d.stride <= Len(tmpRead)
                      /\ d.VertexStart + k * d.stride + 12 <= Len(tmpRead)})
    IN  [k \in 1..n |->
            LET at == d.VertexStart + (k - 1) * d.stride
            IN  <<Unpack(SubSeq(tmpRead, at + 1, at + 4)),
                  Unpack(SubSeq(tmpRead, at + 5, at + 8)),
                  Unpack(SubSeq(tmpRead, at + 9, at + 12))>>]

\* The first n triangles without those out of range for nverts vertices and
\* those on the vertices of a triangle kept before.
RECURSIVE KeptTriangles(_, _, _)
KeptTriangles(tris, n, nverts) ==
    IF n = 0 THEN <<>>
    ELSE LET kept == KeptTriangles(tris, n - 1, nverts)
         IN  IF /\ InRange(tris[n], nverts)
                /\ \A j \in 1..Len(kept) : FaceSet(kept[j]) # FaceSet(tris[n])
             THEN Append(kept, tris[n])
             ELSE kept

\* The mesh being written comes from a chunk header and a sub-mesh
\* descriptor that were read whole.
WrittenWhole ==
    /\ variant = "txd-debug"
    /\ pc = "bmfaces" /\ pc' = "sub"
    /\ Len(collection') = Len(collection)
    /\ collection' # collection
    /\ ~collection[Len(collection)].hdrShort
    /\ ~collection[Len(collection)].descShort

Segment(a) ==
    SubSeq(FaceTable, Len(StripTriangles(StripList, a - 1)) + 1,
           Len(StripTriangles(StripList, a)))

\* C18: strip2face is a function of its input strip alone.  Every call
\* begins non-flipped with an empty output, whatever strip was decoded
\* before; the triangles a finished strip has added to the face table are
\* those of its windows by position; two equal strips have added identical
\* triangles; and decoding leaves the strips as they were.
C18_Strip2FaceStateless ==
    /\ [](pc = "strips" =>
             /\ FaceTable = StripTriangles(StripList, stripNo - 1)
             /\ \A a \in 1..(stripNo - 1) : \A b \in 1..(stripNo - 1) :
                   StripList[a] = StripList[b] => Segment(a) = Segment(b)
             /\ (x = 0 => (~flipped /\ tmpTable = <<>>)))
    /\ [][(pc = "strips" /\ pc' \in {"strips", "verts"}) => StripList' = StripList]_vars
    /\ [][(pc = "strips" /\ stripNo' = stripNo + 1)
           => (~flipped' /\ tmpTable' = <<>>
               /\ FaceTable' = FaceTable \o WindowTriangles(StripList[stripNo],
                                                              AllWindows(StripList[stripNo])))]_vars

\* The strip [0, 1, 2] has been decoded twice in a row, to (1, 2, 0) both times.
C18_Witness ==
    /\ pc = "strips"
    /\ stripNo = 3
    /\ StripList = <<<<0, 1, 2>>, <<0, 1, 2>>>>
    /\ FaceTable = <<<<1, 2, 0>>, <<1, 2, 0>>>>

\* A chunk is being processed whose header lies inside the buffer.
InChunkWholeHeader ==
    /\ pc \in {"sub", "faces", "index", "strips", "verts", "mesh", "bmfaces"}
    /\ matches[matchNo].end + 12 + 28 <= Len(tmpRead)

\* C19: for every chunk whose header lies inside the buffer, with chunkBase
\* the offset 12 bytes after the end of the match, the table entry count and
\* the sub-mesh count are the big-endian integers at chunkBase + 0x14 and
\* chunkBase + 0x18, and the sub-mesh descriptor table starts at
\* chunkBase + 0x1C + 8 * (table entry count), also when the skipped table
\* runs beyond the end of the buffer.  Violated by both versions: beyond the
\* end of the buffer the skip loop (lines 306-308) advances by 4 bytes for
\* an entry, not by 8.
C19_SubTableStart ==
    InChunkWholeHeader =>
        LET chunkBase == matches[matchNo].end + 12
        IN  /\ MeshChunkStart = chunkBase
            /\ mDataTableCount = U32(chunkBase + 20)
            /\ mDataSubCount = U32(chunkBase + 24)
            /\ mDataSubStart = chunkBase + 28 + 8 * mDataTableCount

\* The big-endian integer made of the bytes of the buffer at offsets
\* at .. at + 3, as many of them as the buffer holds.
BytesFrom(at) ==
    IF at >= Len(tmpRead) THEN <<>> ELSE SubSeq(tmpRead, at + 1, Min(at + 4, Len(tmpRead)))

ValueAt(at) ==
    LET b == BytesFrom(at)
    IN  CASE Len(b) = 0 -> 0
          [] Len(b) = 1 -> b[1]
          [] Len(b) = 2 -> b[1] * 256 + b[2]
          [] Len(b) = 3 -> b[1] * 65536 + b[2] * 256 + b[3]
          [] OTHER      -> b[1] * 16777216 + b[2] * 65536 + b[3] * 256 + b[4]

\* The offset d of the descriptor of sub-mesh idx of the current chunk.
DescriptorOffset(idx) ==
    LET o1 == ValueAt(mDataSubStart + 12 * idx + 8)
    IN  ValueAt(o1 + MeshChunkStart + 12) + MeshChunkStart

\* C20: the step that reads the descriptor of sub-mesh i finds it through
\* o1 at subTableBase + 12 * i + 8 and vertCountDataOff at
\* o1 + chunkBase + 12; with d = vertCountDataOff + chunkBase it takes the
\* total size from d and the stride from d + 4, and when the sub-mesh goes on
\* to its faces the vertex data start is (value at d + 16) + FaceDataOff +
\* chunkBase, the index count half the value at d + 40 and the face data
\* start (value at d + 48) + FaceDataOff + chunkBase; chunkBase, FaceDataOff
\* and the table start stay as they are while the sub-meshes of the chunk are
\* processed.
C20_OffsetChain ==
    /\ [][(pc = "sub" /\ i < mDataSubCount)
          => LET d == DescriptorOffset(i)
             IN  /\ VertChunkTotalSize' = ValueAt(d)
                 /\ VertChunkSize' = ValueAt(d + 4)
                 /\ pc' = "faces"
                    => /\ VertCount' = ValueAt(d) \div ValueAt(d + 4)
                       /\ VertexStart' = ValueAt(d + 16) + FaceDataOff + MeshChunkStart
                       /\ FaceCount' = ValueAt(d + 40) \div 2
                       /\ FaceStart' = ValueAt(d + 48) + FaceDataOff + MeshChunkStart]_vars
    /\ [][(pc \notin {"scan", "chunk"} /\ pc' \notin {"chunk", "done"})
          => /\ MeshChunkStart' = MeshChunkStart
             /\ FaceDataOff' = FaceDataOff
             /\ mDataSubStart' = mDataSubStart]_vars

\* The descriptor of the second sub-mesh of a chunk whose FaceDataOff is 128
\* has been read whole, and the sub-mesh goes on to its faces.
C20_Witness ==
    /\ pc = "faces"
    /\ i = 1
    /\ FaceDataOff = 128
    /\ DescriptorOffset(1) + 52 <= Len(tmpRead)
    /\ VertChunkSize = 12
    /\ VertCount = 3
    /\ FaceCount = 5
    /\ VertexStart = ValueAt(DescriptorOffset(1) + 16) + 128 + MeshChunkStart
    /\ FaceStart # VertexStart

\* C21: the counts taken from a descriptor are floors.  When a sub-mesh goes
\* on to its faces, VertCount is the number of whole records of the stride
\* in the total size, the bytes of a partial record being left out, and
\* FaceCount is the number of whole pairs in the raw face count, so that an
\* odd raw count 2k + 1 gives k.
C21_TruncatingDivision ==
    [][(pc = "sub" /\ pc' = "faces")
       => LET raw == ValueAt(DescriptorOffset(i) + 40)
          IN  /\ VertChunkSize' > 0
              /\ VertCount' * VertChunkSize' <= VertChunkTotalSize'
              /\ VertChunkTotalSize' < (VertCount' + 1) * VertChunkSize'
              /\ 2 * FaceCount' <= raw
              /\ raw < 2 * (FaceCount' + 1)
              /\ \A k \in 0..8 : raw = 2 * k + 1 => FaceCount' = k]_vars

\* A descriptor with total size 41, stride 12 and raw face count 7 has been
\* read: 3 vertices and 3 indices.
C21_Witness ==
    /\ pc = "faces"
    /\ VertChunkTotalSize = 41
    /\ VertChunkSize = 12
    /\ VertCount = 3
    /\ ValueAt(DescriptorOffset(i) + 40) = 7
    /\ FaceCount = 3

\* The 4 bytes at offset at of the buffer read as a little-endian two's
\* complement int32.
SignedLE(at) ==
    IF tmpRead[at + 4] >= 128
    THEN -((255 - tmpRead[at + 4]) * 16777216 + (255 - tmpRead[at + 3]) * 65536
           + (255 - tmpRead[at + 2]) * 256 + (255 - tmpRead[at + 1]) + 1)
    ELSE tmpRead[at + 4] * 16777216 + tmpRead[at + 3] * 65536 + tmpRead[at + 2] * 256
         + tmpRead[at + 1]

\* C22: for a chunk whose header lies inside the buffer, FaceDataOff and
\* MeshDataSize are the signed 32-bit values of their 4 little-endian bytes.
\* Violated by both versions: int.from_bytes is called without signed=True
\* (lines 294-295, fork lines 116-117), so bytes F0 FF FF FF give
\* 4294967280, not -16.
C22_SignedFaceDataOff ==
    InChunkWholeHeader =>
        /\ FaceDataOff = SignedLE(matches[matchNo].end + 4)
        /\ MeshDataSize = SignedLE(matches[matchNo].end + 8)

\* The big-endian float whose 4 bytes are at offset at of the buffer.
FloatAt(at) == Unpack(SubSeq(tmpRead, at + 1, at + 4))

\* C23: a vertex that is read has its position in the 12 bytes at
\* VertexStart + v * stride, its first UV pair in the 8 bytes that begin 16
\* bytes before the end of that stride block and its second in the 8 bytes
\* that begin 8 bytes before the end, V stored inverted, for every stride
\* above 0: with a stride below 28 the fields overlap, with a stride below
\* 16 the first pair begins before the record.  All three fields lie
\* inside the buffer.
C23_RecordLayout ==
    [][(pc = "verts" /\ Len(VertTable') = Len(VertTable) + 1)
       => LET at   == VertexStart + v * VertChunkSize
              uvAt == at + VertChunkSize - 16
              cmAt == at + VertChunkSize - 8
          IN  /\ VertChunkSize > 0
              /\ v < VertCount
              /\ Len(VertTable') = v + 1
              /\ at + 12 <= Len(tmpRead)
              /\ uvAt >= 0
              /\ cmAt + 8 <= Len(tmpRead)
              /\ VertTable'[v + 1] = <<FloatAt(at), FloatAt(at + 4), FloatAt(at + 8)>>
              /\ UVTable'[v + 1] = <<FloatAt(uvAt), OneMinus(FloatAt(uvAt + 4))>>
              /\ CMTable'[v + 1] = <<FloatAt(cmAt), OneMinus(FloatAt(cmAt + 4))>>]_vars

\* Two vertices of stride 12 have been read: the first UV pair of the second
\* begins 4 bytes before its record, inside the position of the first, and
\* its second UV pair is the middle of its own position.
C23_Witness ==
    /\ pc = "verts"
    /\ VertChunkSize = 12
    /\ Len(VertTable) = 2
    /\ UVTable[2][1] = VertTable[1][3]
    /\ UVTable[2][1] = FloatAt(VertexStart + 8)
    /\ CMTable[2][1] = VertTable[2][2]

\* The stream positions at which a window of three consecutive indices
\* begins that holds no sentinel and three different indices.
WindowStarts(s) ==
    {p \in 1..(Len(s) - 2) :
        /\ \A k \in p..(p + 2) : s[k] # Sentinel
        /\ s[p] # s[p + 1] /\ s[p] # s[p + 2] /\ s[p + 1] # s[p + 2]}

\* The n-th of these positions in increasing order.
NthWindow(s, n) ==
    CHOOSE p \in WindowStarts(s) : Cardinality({q \in WindowStarts(s) : q < p}) = n

\* C24 (SpecStrip): the triangle list of a sub-mesh is the concatenation of
\* the triangle lists of its strips, in the order of the strips in the index
\* stream and inside a strip by increasing window position.  While the
\* strips are decoded, the k-th triangle made so far is on the three
\* consecutive stream entries of the k-th sentinel-free, non-degenerate
\* window of the stream, so no triangle has indices of two strips; after
\* the last strip there is one triangle for each such window.
C24_StripOrder ==
    pc = "strips" =>
        LET stream == IndexStream(FaceCount)
            runs   == MaximalRuns(stream)
            made   == FaceTable \o tmpTable
        IN  /\ Len(made) <= Cardinality(WindowStarts(stream))
            /\ \A k \in 1..Len(made) :
                   LET p == NthWindow(stream, k - 1)
                   IN  FaceSet(made[k]) = {stream[p], stream[p + 1], stream[p + 2]}
            /\ stripNo > Len(StripList) =>
                   /\ Len(FaceTable) = Cardinality(WindowStarts(stream))
                   /\ FaceTable = Concat([n \in 1..Len(runs) |->
                                     WindowTriangles(runs[n], AllWindows(runs[n]))])

\* The stream [1,2,3,65535,4,5,65535,65535,6,7,8] has been decoded: its
\* first and third strip gave one triangle each, the strip [4,5] none.
C24_Witness ==
    /\ pc = "strips"
    /\ stripNo = 4
    /\ Len(StripList) = 3
    /\ FaceTable = <<<<2, 3, 1>>, <<7, 8, 6>>>>

\* C25: every index placed in a strip is decoded from 2 bytes inside the
\* buffer, and every position and UV pair placed in a vertex table is
\* decoded from 12 and 8 bytes inside the buffer.  Violated by the fork: its
\* index loop (lines 160-167) has no end-of-data test, and a read of 1 or 0
\* bytes beyond the end becomes an index.
C25_ReadsInsideBuffer ==
    [][/\ (pc = "index" /\ Len(tmpList') = Len(tmpList) + 1)
           => pos + 2 <= Len(tmpRead)
       /\ (pc = "verts" /\ Len(VertTable') = Len(VertTable) + 1)
           => LET at == VertexStart + v * VertChunkSize
              IN  /\ at >= 0 /\ at + 12 <= Len(tmpRead)
                  /\ at + VertChunkSize - 16 >= 0
                  /\ at + VertChunkSize <= Len(tmpRead)]_vars

\* The vertex tables hold, entry by entry, the records from VertexStart on.
PrefixOfRecords ==
    /\ Len(UVTable) = Len(VertTable)
    /\ Len(CMTable) = Len(VertTable)
    /\ Len(VertTable) <= VertCount
    /\ \A k \in 1..Len(VertTable) :
           LET at == VertexStart + (k - 1) * VertChunkSize
           IN  /\ VertTable[k] = <<FloatAt(at), FloatAt(at + 4), FloatAt(at + 8)>>
               /\ UVTable[k] = ReadUV(tmpRead, at + VertChunkSize - 16)
               /\ CMTable[k] = ReadUV(tmpRead, at + VertChunkSize - 8)

\* C26: in every sub-mesh, during the vertex loop and until the mesh is
\* written, the position, uv0 and uv1 tables have the same length, at most
\* VertCount and at most the number of records passed, and the k-th entry of
\* each comes from the record at VertexStart + k * stride; the vertices of a
\* written mesh are that table and its loop UVs are the table entries of
\* the loops' vertex indices.  A vertex that is skipped is never followed by
\* one that is kept.
C26_PrefixOfRecords ==
    /\ [](pc \in {"verts", "mesh", "bmfaces"} => PrefixOfRecords)
    /\ [](pc = "verts" => Len(VertTable) <= v)
    /\ [](pc = "bmfaces" => bmVerts = VertTable)
    /\ [][(pc = "verts" /\ pc' = "verts" /\ VertTable' = VertTable)
           => \A k \in v..(VertCount - 1) :
                  VertexStart + k * VertChunkSize + 12 > Len(tmpRead)]_vars
    /\ [][(pc = "bmfaces" /\ collection' # collection /\ Len(collection') = Len(collection))
           => LET m == collection'[Len(collection')]
              IN  /\ m.verts = VertTable
                  /\ m.uv = LoopUVs(m.faces, UVTable)
                  /\ m.cm = LoopUVs(m.faces, CMTable)]_vars

\* The loop over five records of stride 4 has ended with three vertices:
\* the last two records were skipped.
C26_Witness ==
    /\ pc = "mesh"
    /\ tmpRead = SmallStrideBuffer
    /\ VertChunkSize = 4
    /\ VertCount = 5
    /\ v = 5
    /\ Len(VertTable) = 3

\* C27: when a mesh enters the collection under the name (c, s), c is the
\* zero-based position, among the signature matches of the buffer, of the
\* match whose header is in use, whether the chunks before it gave meshes
\* or not, and s is the index, in the descriptor table of that chunk, of the
\* descriptor the sub-mesh was read from, whether the sub-meshes before it
\* were skipped or not.
C27_ChunkAndSubIndex ==
    [][Len(collection') > Len(collection)
       => LET name == collection'[Len(collection')].name
              c    == name[1]
              s    == name[2]
          IN  /\ c + 1 \in 1..Len(matches)
              /\ Cardinality({p \in Reported : p < matches[c + 1].start}) = c
              /\ LET hdr == ReadHeader(tmpRead, matches[c + 1].end)
                 IN  /\ FaceDataOff = hdr.FaceDataOff
                     /\ MeshChunkStart = hdr.MeshChunkStart
                     /\ mDataSubStart = hdr.mDataSubStart
                     /\ mDataSubCount = hdr.mDataSubCount
              /\ s \in 0..(mDataSubCount - 1)
              /\ VertChunkTotalSize = ValueAt(DescriptorOffset(s))
              /\ VertChunkSize = ValueAt(DescriptorOffset(s) + 4)]_vars

\* The import has finished with the single mesh Mesh_1_1: the first chunk
\* gave no mesh and the first sub-mesh of the second chunk was skipped.
C27_Witness ==
    /\ pc = "done"
    /\ tmpRead = EmptyFirstBuffer
    /\ Len(matches) = 2
    /\ [k \in 1..Len(collection) |-> collection[k].name] = <<<<1, 1>>>>

\* The loop counters are within the counts that bound their loops.
CountersBounded ==
    /\ matchNo <= Len(matches) + 1
    /\ Len(matches) * 12 <= Len(tmpRead)
    /\ mesh_iter <= Len(matches)
    /\ (pc \in {"sub", "faces", "index", "strips", "verts", "mesh", "bmfaces"}
           => i <= mDataSubCount)
    /\ (pc = "index" => (f <= FaceCount /\ f <= descFaceCount))
    /\ (pc = "verts" => v <= VertCount)
    /\ (pc = "strips" => stripNo <= Len(StripList) + 1)
    /\ (pc = "bmfaces" => faceNo <= Len(FaceTable) + 1)

\* C28 (SpecLive): for every buffer the import comes to its end.  The scan
\* yields at most one match for 12 bytes of the buffer; the sub-mesh loop,
\* the index loop and the vertex loop count up to mDataSubCount, to the
\* clamped FaceCount and to VertCount; no step goes back to an earlier chunk
\* or an earlier sub-mesh of the same chunk, and a step that leaves a
\* sub-mesh on an error path moves on to the next one.
C28_Terminates ==
    /\ <>(pc = "done")
    /\ []CountersBounded
    /\ [][/\ matchNo' >= matchNo
           /\ ((matchNo' = matchNo /\ pc # "chunk") => i' >= i)
           /\ ((pc \notin {"sub", "chunk", "scan"} /\ pc' = "sub") => i' = i + 1)
           /\ ((pc = "index" /\ pc' = "index") => f' = f + 1)
           /\ ((pc = "verts" /\ pc' = "verts") => v' = v + 1)]_vars

\* The import of the two-sub-mesh buffer has ended after its first sub-mesh
\* was refused for its stride and its second one gave a mesh.
C28_Witness ==
    /\ pc = "done"
    /\ result = "FINISHED"
    /\ tmpRead = TwoSubBuffer
    /\ matchNo = 2
    /\ i = 2
    /\ Len(collection) = 1

-----------------------------------------------------------------------------
(* The marking utility against the importer (SpecMark)                     *)

\* What execute derives from the bytes as read for the chunk whose signature
\* starts at start, and for its sub-mesh idx.
ImporterHeader(start) == ReadHeader(tmpRead, start + SigLen)

ImporterSubMesh(start, idx) ==
    LET h == ImporterHeader(start)
    IN  ReadSubMesh(tmpRead, h.mDataSubStart, idx, h.MeshChunkStart, h.FaceDataOff)

\* The bytes of the file execute reads as vertex records and as indices of
\* sub-mesh idx (0-based positions).
ImporterRegions(start, idx) ==
    LET s == ImporterSubMesh(start, idx)
    IN  {k \in 0..(Len(tmpRead) - 1) :
            \/ k >= s.VertexStart /\ k < s.VertexStart + s.VertCount * s.VertChunkSize
            \/ k >= s.FaceStart /\ k < s.FaceStart + 2 * s.FaceCount}

\* C29: for every chunk whose initial block the utility marks it derives the
\* face data offset, the reference index, both counts and the sub-mesh table
\* start that execute derives from the same bytes; for every sub-mesh of the
\* chunk it derives execute's stride, vertex data start, face data start and
\* index count; and the file it writes has the asterisk at every byte execute
\* reads as vertex or index data of the chunk's first sub-mesh.
C29_MarkerDerivesImporterOffsets ==
    markChunk.marked =>
        LET h   == markChunk.header
            imp == ImporterHeader(markChunk.start)
        IN  /\ h.face_data_off_orig = imp.FaceDataOff
            /\ h.mesh_chunk_start_ref_index = imp.MeshChunkStart
            /\ h.mdata_table_count = imp.mDataTableCount
            /\ h.mdata_sub_count = imp.mDataSubCount
            /\ h.mdata_sub_table_start_index = imp.mDataSubStart
            /\ \A idx \in 0..(imp.mDataSubCount - 1) :
                   LET m == MarkerSubMesh(byte_array, h, idx)
                       s == ImporterSubMesh(markChunk.start, idx)
                   IN  s.skip = "no" =>
                          /\ ~m.skipped
                          /\ m.vert_chunk_size = s.VertChunkSize
                          /\ m.vertex_data_start_index = s.VertexStart
                          /\ m.face_data_start_index = s.FaceStart
                          /\ m.face_count_value = s.FaceCount
            /\ (markPc = "True" /\ imp.mDataSubCount > 0
                    /\ ImporterSubMesh(markChunk.start, 0).skip = "no")
                  => \A k \in ImporterRegions(markChunk.start, 0) : fileOut[k + 1] = 42

\* The utility has marked the initial block of a chunk in which execute reads
\* a sub-mesh with vertices and faces.
C29_Case ==
    /\ markChunk.marked
    /\ ImporterHeader(markChunk.start).mDataSubCount > 0
    /\ ImporterSubMesh(markChunk.start, 0).skip = "no"
    /\ ImporterSubMesh(markChunk.start, 0).VertCount > 0
    /\ ImporterSubMesh(markChunk.start, 0).FaceCount > 0

\* The one header value the utility does derive as execute does.
MarkerReferenceIndex ==
    markChunk.marked =>
        markChunk.header.mesh_chunk_start_ref_index = ImporterHeader(markChunk.start).MeshChunkStart

-----------------------------------------------------------------------------
(* Properties of the string search (SpecFind)                              *)

\* The offsets at which the signature of sig_info k occurs in data.
OccurrencesOf(k) ==
    {o \in 0..Len(data) : OccursAt(data, signatures_info[k].signature, o)}

\* The occurrence at o is one the left-to-right search arrives at: no
\* occurrence it arrives at earlier covers o.
RECURSIVE Reached(_, _)
Reached(k, o) ==
    /\ o \in OccurrencesOf(k)
    /\ \A g \in OccurrencesOf(k) :
          (g < o /\ o < g + Len(signatures_info[k].signature)) => ~Reached(k, g)

StringStartInBounds(k, o) ==
    /\ o + signatures_info[k].relative_string_offset >= 0
    /\ o + signatures_info[k].relative_string_offset < Len(data)

\* Positions in results of the records of sig_info k at signature offset o.
RecordsOf(k, o) ==
    {n \in 1..Len(results) :
        /\ results[n].signature_description = signatures_info[k].description
        /\ results[n].signature_offset = o}

\* For one signature the reported offsets increase strictly and the reported
\* occurrences do not overlap.
ReportedApart ==
    \A m, n \in 1..Len(results) :
        (m < n /\ results[m].signature_description = results[n].signature_description)
            => results[m].signature_offset + Len(results[m].signature) \div 2
                   <= results[n].signature_offset

\* Each loop pass moves current_offset to signature_offset + len(signature),
\* past where it was, and appends at most one record, for an occurrence.
SearchAdvances ==
    (sigNo' = sigNo /\ current_offset' # current_offset) =>
        LET info == signatures_info[sigNo]
            o    == current_offset' - Len(info.signature)
        IN  /\ current_offset' > current_offset
            /\ o >= current_offset
            /\ OccursAt(data, info.signature, o)
            /\ IF StringStartInBounds(sigNo, o)
               THEN results' = Append(results, ResultRecord(data, info, o))
               ELSE results' = results

\* C30 as stated: the search returns; along the way every pass advances
\* current_offset and the reported occurrences of one signature are strictly
\* increasing and apart; and at the return every occurrence of a signature in
\* the data whose string start is in bounds has exactly one record.
C30_EveryOccurrenceRecorded ==
    /\ <>(findPc = "returned")
    /\ [][SearchAdvances]_vars
    /\ []ReportedApart
    /\ [](findPc = "returned" =>
            \A k \in 1..Len(signatures_info) : \A o \in OccurrencesOf(k) :
                StringStartInBounds(k, o) => Cardinality(RecordsOf(k, o)) = 1)

\* C30, amended: as above, with exactly one record for every occurrence the
\* search arrives at whose string start is in bounds, and no record for any
\* other offset: an occurrence that starts inside an earlier reported one, or
\* whose string start is out of bounds, has none.
C30_SearchTerminates ==
    /\ <>(findPc = "returned")
    /\ [][SearchAdvances]_vars
    /\ []ReportedApart
    /\ [](findPc = "returned" =>
            \A k \in 1..Len(signatures_info) : \A o \in 0..Len(data) :
                Cardinality(RecordsOf(k, o)) =
                    IF Reached(k, o) /\ StringStartInBounds(k, o) THEN 1 ELSE 0)

\* The search has returned two records of one signature, having passed an
\* occurrence that overlaps a reported one and one whose string start is
\* outside the data.
C30_Witness ==
    /\ findPc = "returned"
    /\ Len(signatures_info) = 1
    /\ Len(results) >= 2
    /\ \E o \in OccurrencesOf(1) : ~Reached(1, o)
    /\ \E o \in OccurrencesOf(1) : Reached(1, o) /\ ~StringStartInBounds(1, o)
====
